---- MODULE Spec2Model ----
(***************************************************************************)
(* Alternative-investments data-quality pipeline.                          *)
(*                                                                         *)
(* The model follows the four scripts of the repository, which share one   *)
(* SQLite database:                                                        *)
(*   src/src/01_ingest_standardize.py   (initialize_database + load)       *)
(*   src/src/02_validate_quality.py     (DataQualityValidator)             *)
(*   src/src/03_generate_metrics.py     (MetricsGenerator)                 *)
(*   src/src/04_export_for_powerbi.py   (export_all_tables)                *)
(*                                                                         *)
(* Nullable column values are option sets: {} is NULL/NaN, {v} is the      *)
(* value v.  Table rows keep their order (sequences), as pandas iterates   *)
(* rows in table order.  Amounts (millions), ratios and percentages are    *)
(* kept in hundredths, dates are day numbers.                              *)
(***************************************************************************)
EXTENDS Integers, Sequences, FiniteSets, TLC

VARIABLES
    \* ---- the SQLite database and the output directory (the sink) ----
    standardized_funds,       \* table standardized_funds (rows in order)
    standardized_performance, \* table standardized_performance
    raw_regulatory,           \* table raw_regulatory
    load_failed,              \* input files whose ingest step returned False
    quality_issues,           \* table quality_issues
    quality_alerts,           \* table quality_alerts
    quality_metrics,          \* table quality_metrics
    critical_alerts_csv,      \* data/output/CRITICAL_ALERTS.csv
    exported,                 \* data/output/<table>.csv: rows written per table
    \* ---- DataQualityValidator object ----
    issues,                   \* self.issues
    alerts,                   \* self.alerts
    stats,                    \* self.stats
    validation_timestamp,     \* self.validation_timestamp
    \* ---- MetricsGenerator object ----
    metrics,                  \* self.metrics
    metric_date,              \* self.metric_date
    \* ---- control ----
    pc,                       \* position of the running script
    runs,                     \* scripts launched so far
    today                     \* the day datetime.now() falls on

vars == << standardized_funds, standardized_performance, raw_regulatory,
           load_failed, quality_issues, quality_alerts, quality_metrics,
           critical_alerts_csv, exported, issues, alerts, stats,
           validation_timestamp, metrics, metric_date, pc, runs, today >>

\* The record store: the tables the rules read, and how their load went
storevars == << standardized_funds, standardized_performance, raw_regulatory,
               load_failed >>

\* The sink: what the scripts write for their consumers
sinkvars == << quality_issues, quality_alerts, quality_metrics,
              critical_alerts_csv, exported >>

validatorvars == << issues, alerts, stats, validation_timestamp >>

generatorvars == << metrics, metric_date >>

-----------------------------------------------------------------------------
(* Bounds of the model *)

\* log_issue calls explored on one validator (aggregator specification)
MaxLogCalls == 3

\* Funds in a snapshot handed to the rules (rules specification)
MaxFunds == 2

\* Regulatory filings in a snapshot handed to the rules
MaxFilings == 2

\* Scripts launched in one behaviour of the pipeline
MaxRuns == 4

\* Performance observations in a snapshot handed to the rules
MaxObservations == 2

\* Days that pass while the pipeline is observed
MaxDay == 1

-----------------------------------------------------------------------------
(* Option values *)

Null == {}

Some(v) == {v}

notna(x) == x # {}

isna(x) == x = {}

Val(x) == CHOOSE v \in x : TRUE

\* str(value) if value is not None else None
StrOrNone(x) == IF isna(x) THEN Null ELSE Some(ToString(Val(x)))

RECURSIVE SeqSum(_)
SeqSum(s) == IF s = << >> THEN 0 ELSE Head(s) + SeqSum(Tail(s))

Range(s) == { s[i] : i \in 1..Len(s) }

-----------------------------------------------------------------------------
(* DataQualityValidator: the issue and alert accumulator *)

\* self.stats after __init__
InitStats == [ total_issues    |-> 0,
               critical_issues |-> 0,
               high_issues     |-> 0,
               medium_issues   |-> 0,
               low_issues      |-> 0 ]

\* The validator object right after __init__ run on day `day`
NewValidator(day) ==
    [ issues |-> << >>, alerts |-> << >>, stats |-> InitStats,
      validation_timestamp |-> day ]

\* f'{n:04d}': at least four decimal digits, zero padded
RECURSIVE Digits(_)
Digits(n) == IF n < 10 THEN << n >> ELSE Append(Digits(n \div 10), n % 10)

Pad04(n) ==
    LET d == Digits(n)
    IN  IF Len(d) >= 4 THEN d
        ELSE [ i \in 1..4 |-> IF i <= 4 - Len(d) THEN 0 ELSE d[i - (4 - Len(d))] ]

\* f'ALERT-{n:04d}'
AlertId(n) == [ prefix |-> "ALERT-", digits |-> Pad04(n) ]

\* Mutant of create_alert: the identifier is taken from the length before
\* the append without the +1 (0-based numbering).
create_alert_ZeroBased(v, fund_id, rule_violated, severity, description) ==
    [ v EXCEPT !.alerts = Append(@,
        [ alert_id       |-> AlertId(Len(v.alerts)),
          fund_id        |-> fund_id,
          rule_violated  |-> rule_violated,
          severity       |-> severity,
          description    |-> description,
          detected_timestamp |-> v.validation_timestamp,
          status         |-> "ACTIVE",
          acknowledged_by |-> Null,
          acknowledged_timestamp |-> Null ]) ]

\* DataQualityValidator.create_alert
create_alert(v, fund_id, rule_violated, severity, description) ==
    [ v EXCEPT !.alerts = Append(@,
        [ alert_id       |-> AlertId(Len(v.alerts) + 1),
          fund_id        |-> fund_id,
          rule_violated  |-> rule_violated,
          severity       |-> severity,
          description    |-> description,
          detected_timestamp |-> v.validation_timestamp,
          status         |-> "ACTIVE",
          acknowledged_by |-> Null,
          acknowledged_timestamp |-> Null ]) ]

\* The issue dict built at the top of log_issue
IssueOf(c, timestamp) ==
    [ fund_id           |-> c.fund_id,
      issue_type        |-> c.issue_type,
      severity          |-> c.severity,
      field_name        |-> c.field_name,
      expected_value    |-> StrOrNone(c.expected_value),
      actual_value      |-> StrOrNone(c.actual_value),
      issue_description |-> c.description,
      detected_timestamp |-> timestamp,
      status            |-> "Open",
      resolution_notes  |-> Null,
      resolved_timestamp |-> Null ]

\* Mutant of log_issue: the alert is raised for High issues as well.
log_issue_AlertOnHigh(v, c) ==
    LET v1 == [ v EXCEPT !.issues = Append(@, IssueOf(c, v.validation_timestamp)),
                         !.stats.total_issues = @ + 1 ]
    IN  IF c.severity = "Critical"
        THEN create_alert([ v1 EXCEPT !.stats.critical_issues = @ + 1 ],
                          c.fund_id, c.issue_type, c.severity, c.description)
        ELSE IF c.severity = "High"
        THEN create_alert([ v1 EXCEPT !.stats.high_issues = @ + 1 ],
                          c.fund_id, c.issue_type, c.severity, c.description)
        ELSE IF c.severity = "Medium"
        THEN [ v1 EXCEPT !.stats.medium_issues = @ + 1 ]
        ELSE [ v1 EXCEPT !.stats.low_issues = @ + 1 ]

\* A variant which keeps one issue per fund: a call on a fund that already
\* has an issue is dropped
log_issue_OncePerFund(v, c) ==
    IF \E i \in 1..Len(v.issues) : v.issues[i].fund_id = c.fund_id THEN v
    ELSE
    LET v1 == [ v EXCEPT !.issues = Append(@, IssueOf(c, v.validation_timestamp)),
                         !.stats.total_issues = @ + 1 ]
    IN  IF c.severity = "Critical"
        THEN create_alert([ v1 EXCEPT !.stats.critical_issues = @ + 1 ],
                          c.fund_id, c.issue_type, c.severity, c.description)
        ELSE IF c.severity = "High"
        THEN [ v1 EXCEPT !.stats.high_issues = @ + 1 ]
        ELSE IF c.severity = "Medium"
        THEN [ v1 EXCEPT !.stats.medium_issues = @ + 1 ]
        ELSE [ v1 EXCEPT !.stats.low_issues = @ + 1 ]

\* A variant which puts the new issue in front of the list
log_issue_Prepend(v, c) ==
    LET v1 == [ v EXCEPT !.issues = << IssueOf(c, v.validation_timestamp) >> \o @,
                         !.stats.total_issues = @ + 1 ]
    IN  IF c.severity = "Critical"
        THEN create_alert([ v1 EXCEPT !.stats.critical_issues = @ + 1 ],
                          c.fund_id, c.issue_type, c.severity, c.description)
        ELSE IF c.severity = "High"
        THEN [ v1 EXCEPT !.stats.high_issues = @ + 1 ]
        ELSE IF c.severity = "Medium"
        THEN [ v1 EXCEPT !.stats.medium_issues = @ + 1 ]
        ELSE [ v1 EXCEPT !.stats.low_issues = @ + 1 ]

\* A variant which does not tally a severity it does not know
log_issue_LowOnly(v, c) ==
    LET v1 == [ v EXCEPT !.issues = Append(@, IssueOf(c, v.validation_timestamp)),
                         !.stats.total_issues = @ + 1 ]
    IN  IF c.severity = "Critical"
        THEN create_alert([ v1 EXCEPT !.stats.critical_issues = @ + 1 ],
                          c.fund_id, c.issue_type, c.severity, c.description)
        ELSE IF c.severity = "High"
        THEN [ v1 EXCEPT !.stats.high_issues = @ + 1 ]
        ELSE IF c.severity = "Medium"
        THEN [ v1 EXCEPT !.stats.medium_issues = @ + 1 ]
        ELSE IF c.severity = "Low"
        THEN [ v1 EXCEPT !.stats.low_issues = @ + 1 ]
        ELSE v1

\* DataQualityValidator.log_issue; c is the call's argument record
log_issue(v, c) ==
    LET v1 == [ v EXCEPT !.issues = Append(@, IssueOf(c, v.validation_timestamp)),
                         !.stats.total_issues = @ + 1 ]
    IN  IF c.severity = "Critical"
        THEN create_alert([ v1 EXCEPT !.stats.critical_issues = @ + 1 ],
                          c.fund_id, c.issue_type, c.severity, c.description)
        ELSE IF c.severity = "High"
        THEN [ v1 EXCEPT !.stats.high_issues = @ + 1 ]
        ELSE IF c.severity = "Medium"
        THEN [ v1 EXCEPT !.stats.medium_issues = @ + 1 ]
        ELSE [ v1 EXCEPT !.stats.low_issues = @ + 1 ]

\* A rule's loop: log_issue applied to each call of a sequence, in order
RECURSIVE LogAll(_, _)
LogAll(v, calls) ==
    IF calls = << >> THEN v ELSE LogAll(log_issue(v, Head(calls)), Tail(calls))

\* The argument record of one log_issue call
Call(fund_id, issue_type, severity, field_name, expected, actual, description) ==
    [ fund_id        |-> fund_id,
      issue_type     |-> issue_type,
      severity       |-> severity,
      field_name     |-> field_name,
      expected_value |-> expected,
      actual_value   |-> actual,
      description    |-> description ]

\* The validator object held in the variables
Validator ==
    [ issues |-> issues, alerts |-> alerts, stats |-> stats,
      validation_timestamp |-> validation_timestamp ]

\* The variables take the fields of validator object v
SetValidator(v) ==
    /\ issues' = v.issues
    /\ alerts' = v.alerts
    /\ stats' = v.stats
    /\ validation_timestamp' = v.validation_timestamp

-----------------------------------------------------------------------------
(* Configuration: config.py *)

\* QUALITY_THRESHOLDS['timeliness_days']
TimelinessDays == 90

\* QUALITY_THRESHOLDS['variance_threshold'] (percent)
VarianceThreshold == 5

\* QUALITY_THRESHOLDS['completeness_target'], in hundredths of a percent
CompletenessTarget == 9500

\* QUALITY_THRESHOLDS['accuracy_target'], in hundredths of a percent
AccuracyTarget == 9800

\* The year datetime.now() falls in; day 0 is 1 January 2026
Year(day) == 2026 + (day \div 365)

\* Mutant of the required-field list: administrator is listed as well.
RequiredFields_WithAdministrator ==
    << "fund_id", "fund_name", "manager_name", "fund_type", "vintage_year",
       "fund_size_usd_millions", "target_size_usd_millions", "administrator" >>

\* VALIDATION_RULES['fund_master']['required_fields']
RequiredFields ==
    << "fund_id", "fund_name", "manager_name", "fund_type", "vintage_year",
       "fund_size_usd_millions", "target_size_usd_millions" >>

\* Mutant of the numeric ranges: the current year is not a valid vintage.
FundNumericRanges_LastYear(day) ==
    << [ field |-> "fund_size_usd_millions",   min |-> 0,    max |-> 10000000 ],
       [ field |-> "vintage_year",             min |-> 1950, max |-> Year(day) - 1 ],
       [ field |-> "target_size_usd_millions", min |-> 0,    max |-> 10000000 ] >>

\* VALIDATION_RULES['fund_master']['numeric_ranges']; amounts are in
\* hundredths of a million, so (0, 100000) is (0, 10000000)
FundNumericRanges(day) ==
    << [ field |-> "fund_size_usd_millions",   min |-> 0,    max |-> 10000000 ],
       [ field |-> "vintage_year",             min |-> 1950, max |-> Year(day) ],
       [ field |-> "target_size_usd_millions", min |-> 0,    max |-> 10000000 ] >>

\* VALIDATION_RULES['fund_master']['categorical_values']
FundCategoricalValues ==
    << [ field |-> "fund_type",
         values |-> { "Private Equity", "Hedge Fund", "Venture Capital" } ],
       [ field |-> "currency",
         values |-> { "USD", "EUR", "GBP", "JPY", "CHF", "CNY", "CAD" } ] >>

\* VALIDATION_RULES['performance']['numeric_ranges']; ratios and percentages
\* are in hundredths; irr marks the fields whose name contains "irr"
PerfNumericRanges ==
    << [ field |-> "irr_net_pct",        min |-> -10000, max |-> 20000, irr |-> TRUE ],
       [ field |-> "dpi",                min |-> 0,      max |-> 2000,  irr |-> FALSE ],
       [ field |-> "rvpi",               min |-> 0,      max |-> 2000,  irr |-> FALSE ],
       [ field |-> "tvpi",               min |-> 0,      max |-> 3000,  irr |-> FALSE ],
       [ field |-> "monthly_return_pct", min |-> -5000,  max |-> 10000, irr |-> FALSE ] >>

\* tvpi_equals_dpi_plus_rvpi tolerance 0.01, in hundredths
TvpiTolerance == 1

\* Columns of table standardized_funds as standardize_fund_master writes it
FundColumns ==
    { "fund_id", "fund_name", "manager_name", "fund_type", "strategy",
      "vintage_year", "inception_date", "fund_size_usd_millions",
      "original_currency", "original_fund_size", "target_size_usd_millions",
      "status", "geography", "sector_focus", "administrator", "last_updated",
      "standardization_timestamp", "data_quality_passed" }

\* Columns of table standardized_performance as standardize_performance writes it
PerfColumns ==
    { "fund_id", "report_date", "report_quarter", "irr_net_pct", "moic", "dpi",
      "rvpi", "tvpi", "tvpi_calculated", "capital_called_millions",
      "distributions_millions", "remaining_value_millions", "nav_per_share",
      "monthly_return_pct", "standardization_timestamp", "data_quality_passed" }

-----------------------------------------------------------------------------
(* Sequence helpers *)

RECURSIVE Flatten(_)
Flatten(ss) == IF ss = << >> THEN << >> ELSE Head(ss) \o Flatten(Tail(ss))

MapSeq(s, F(_)) == [ i \in 1..Len(s) |-> F(s[i]) ]

Abs(n) == IF n < 0 THEN -n ELSE n

\* The distinct elements of s in order of first appearance (Series.unique())
RECURSIVE Unique(_)
Unique(s) ==
    IF s = << >> THEN << >>
    ELSE LET r == Unique(SubSeq(s, 1, Len(s) - 1))
             x == s[Len(s)]
         IN  IF x \in Range(r) THEN r ELSE Append(r, x)

\* All orderings of a finite set, as sequences
Perms(S) ==
    { p \in [ 1..Cardinality(S) -> S ] : \A x \in S : \E i \in DOMAIN p : p[i] = x }

-----------------------------------------------------------------------------
(* Rule 1: validate_completeness *)

validate_completeness_calls(funds) ==
    LET generic(field) ==
            MapSeq(SelectSeq(funds, LAMBDA r : isna(r[field])),
                   LAMBDA r :
                     Call(r.fund_id, "Completeness",
                          IF field \in { "fund_id", "fund_name", "fund_type" }
                          THEN "High" ELSE "Medium",
                          field, Some("Not Null"), Null,
                          << "Missing required field: ", field >>))
        admin ==
            MapSeq(SelectSeq(funds, LAMBDA r : isna(r.administrator)),
                   LAMBDA r :
                     Call(r.fund_id, "Completeness", "Medium", "administrator",
                          Some("Valid Administrator"), Null,
                          << "Missing administrator - potential self-administration risk" >>))
    IN  Flatten(MapSeq(RequiredFields, generic)) \o admin

-----------------------------------------------------------------------------
(* Rule 2: validate_accuracy *)

validate_accuracy_calls(funds, perf, day) ==
    LET numeric(rg) ==
            IF rg.field \in FundColumns
            THEN MapSeq(SelectSeq(funds, LAMBDA r :
                            /\ notna(r[rg.field])
                            /\ (Val(r[rg.field]) < rg.min \/ Val(r[rg.field]) > rg.max)),
                        LAMBDA r :
                          Call(r.fund_id, "Accuracy",
                               IF Val(r[rg.field]) < 0 THEN "Critical" ELSE "High",
                               rg.field,
                               Some(<< "Between ", ToString(rg.min), " and ", ToString(rg.max) >>),
                               r[rg.field],
                               << rg.field, " out of valid range: ", ToString(Val(r[rg.field])) >>))
            ELSE << >>
        categorical(rule) ==
            IF rule.field \in FundColumns
            THEN MapSeq(SelectSeq(funds, LAMBDA r :
                            notna(r[rule.field]) /\ Val(r[rule.field]) \notin rule.values),
                        LAMBDA r :
                          Call(r.fund_id, "Accuracy", "Medium", rule.field,
                               Some(<< "One of: ", rule.field >>),
                               r[rule.field],
                               << "Invalid ", rule.field, ": '", Val(r[rule.field]),
                                  "' not in allowed values" >>))
            ELSE << >>
        perfrange(rg) ==
            IF rg.field \in PerfColumns
            THEN MapSeq(SelectSeq(perf, LAMBDA r :
                            /\ notna(r[rg.field])
                            /\ (Val(r[rg.field]) < rg.min \/ Val(r[rg.field]) > rg.max)),
                        LAMBDA r :
                          Call(r.fund_id, "Accuracy",
                               IF rg.irr THEN "Critical" ELSE "High",
                               rg.field,
                               Some(<< "Between ", ToString(rg.min), " and ", ToString(rg.max) >>),
                               r[rg.field],
                               << "Implausible ", rg.field, ": ", ToString(Val(r[rg.field])) >>))
            ELSE << >>
    IN  Flatten(MapSeq(FundNumericRanges(day), numeric))
          \o Flatten(MapSeq(FundCategoricalValues, categorical))
          \o Flatten(MapSeq(PerfNumericRanges, perfrange))

-----------------------------------------------------------------------------
(* Rule 3: validate_consistency *)

\* The pairs (tvpi, tvpi_calculated) of the model's values that are exactly
\* one hundredth apart and whose difference, computed in IEEE-754 doubles,
\* comes out above the double 0.01: abs(1.81 - 1.8) and abs(1.79 - 1.8) and
\* abs(1.99 - 2.0) are 0.010000000000000009, while abs(2.01 - 2.0) is
\* 0.009999999999999787
RoundsAboveTolerance(tvpi, calculated) ==
    << tvpi, calculated >> \in { << 181, 180 >>, << 179, 180 >>, << 199, 200 >> }

\* abs(tvpi - tvpi_calculated) > tolerance, as the doubles compare: rounding
\* errors (below 1e-15) decide only when the values are exactly one
\* tolerance apart
ExceedsTolerance(tvpi, calculated) ==
    LET variance == Abs(tvpi - calculated)
    IN  \/ variance > TvpiTolerance
        \/ variance = TvpiTolerance /\ RoundsAboveTolerance(tvpi, calculated)

validate_consistency_calls(funds, perf) ==
    LET inconsistent ==
            SelectSeq(perf, LAMBDA r :
                /\ notna(r.tvpi) /\ notna(r.dpi) /\ notna(r.rvpi)
                /\ notna(r.tvpi_calculated)
                /\ ExceedsTolerance(Val(r.tvpi), Val(r.tvpi_calculated)))
        size_issues ==
            SelectSeq(funds, LAMBDA r :
                /\ notna(r.fund_size_usd_millions)
                /\ notna(r.target_size_usd_millions)
                /\ Val(r.fund_size_usd_millions) > Val(r.target_size_usd_millions))
    IN  MapSeq(inconsistent, LAMBDA r :
            Call(r.fund_id, "Consistency", "High", "tvpi",
                 Some(<< ToString(Val(r.tvpi_calculated)), " (DPI + RVPI)" >>),
                 r.tvpi,
                 << "TVPI calculation error: Reported ", ToString(Val(r.tvpi)),
                    ", Expected ", ToString(Val(r.tvpi_calculated)),
                    " (DPI ", ToString(Val(r.dpi)),
                    " + RVPI ", ToString(Val(r.rvpi)), ")" >>))
        \o
        MapSeq(size_issues, LAMBDA r :
            Call(r.fund_id, "Consistency", "Medium", "fund_size_usd_millions",
                 Some(<< "<= ", ToString(Val(r.target_size_usd_millions)) >>),
                 r.fund_size_usd_millions,
                 << "Fund size ($", ToString(Val(r.fund_size_usd_millions)),
                    "M) exceeds target ($", ToString(Val(r.target_size_usd_millions)),
                    "M)" >>))

-----------------------------------------------------------------------------
(* Rule 4: validate_timeliness *)

\* last_updated is a date (midnight of its day) and datetime.now() falls
\* strictly inside day `day`, so  last_updated < now - n days  iff
\* last_updated + n <= day, and (now - last_updated).days = day - last_updated.
OlderThan(last_updated, n, day) ==
    notna(last_updated) /\ Val(last_updated) + n <= day

DaysOld(last_updated, day) == day - Val(last_updated)

validate_timeliness_calls(funds, day) ==
    LET stale == SelectSeq(funds, LAMBDA r : OlderThan(r.last_updated, TimelinessDays, day))
    IN  MapSeq(stale, LAMBDA r :
            LET days_old == DaysOld(r.last_updated, day)
            IN  Call(r.fund_id, "Timeliness",
                     IF days_old > 365 THEN "Critical"
                     ELSE IF days_old > 180 THEN "High" ELSE "Medium",
                     "last_updated",
                     Some(<< "Within ", ToString(TimelinessDays), " days" >>),
                     r.last_updated,
                     << "Stale data: Last updated ", ToString(days_old), " days ago" >>))

-----------------------------------------------------------------------------
(* Rule 5: validate_duplicates *)

\* The manager and fund names of the model in ascending string order, the
\* order in which groupby sorts its group keys
NameOrder ==
    << "Apex Capital", "Birch Partners", "Fund I", "Fund II", "Fund III",
       "Fund IV" >>

NameRank(s) == CHOOSE i \in 1..Len(NameOrder) : NameOrder[i] = s

KeyLess(a, b) ==
    \/ NameRank(a[1]) < NameRank(b[1])
    \/ a[1] = b[1] /\ NameRank(a[2]) < NameRank(b[2])

\* A finite set of (manager_name, fund_name) keys in ascending order
RECURSIVE SortKeys(_)
SortKeys(S) ==
    IF S = {} THEN << >>
    ELSE LET m == CHOOSE k \in S : \A o \in S \ {k} : KeyLess(k, o)
         IN  << m >> \o SortKeys(S \ {m})

\* A variant which logs one issue per duplicated group, on its first member
validate_duplicates_calls_PerGroup(funds) ==
    LET keyed == SelectSeq(funds, LAMBDA r : notna(r.manager_name) /\ notna(r.fund_name))
        KeyOf(r) == << Val(r.manager_name), Val(r.fund_name) >>
        Count(k) == Len(SelectSeq(keyed, LAMBDA r : KeyOf(r) = k))
        duplicates == SortKeys({ k \in { KeyOf(keyed[i]) : i \in 1..Len(keyed) } : Count(k) > 1 })
        first(k) ==
            LET r == Head(SelectSeq(keyed, LAMBDA q : KeyOf(q) = k))
            IN  Call(r.fund_id, "Duplicates", "High", "fund_name",
                     Some("Unique within manager"), r.fund_name,
                     << "Duplicate fund name: ", ToString(Count(k)),
                        " funds named '", k[2], "' from ", k[1] >>)
    IN  MapSeq(duplicates, first)

validate_duplicates_calls(funds) ==
    LET keyed == SelectSeq(funds, LAMBDA r : notna(r.manager_name) /\ notna(r.fund_name))
        KeyOf(r) == << Val(r.manager_name), Val(r.fund_name) >>
        Count(k) == Len(SelectSeq(keyed, LAMBDA r : KeyOf(r) = k))
        duplicates == SortKeys({ k \in { KeyOf(keyed[i]) : i \in 1..Len(keyed) } : Count(k) > 1 })
        group(k) ==
            MapSeq(SelectSeq(keyed, LAMBDA r : KeyOf(r) = k),
                   LAMBDA r :
                     Call(r.fund_id, "Duplicates", "High", "fund_name",
                          Some("Unique within manager"), r.fund_name,
                          << "Duplicate fund name: ", ToString(Count(k)),
                             " funds named '", k[2], "' from ", k[1] >>))
    IN  Flatten(MapSeq(duplicates, group))

-----------------------------------------------------------------------------
(* Rule 6: validate_referential_integrity *)

\* A variant which does not take the fund master's ids away
OrphanedRecords_AllObserved(funds, perf) ==
    { perf[i].fund_id : i \in 1..Len(perf) }

\* set(perf_df['fund_id']) - set(funds_df['fund_id'])
OrphanedRecords(funds, perf) ==
    { perf[i].fund_id : i \in 1..Len(perf) } \ { funds[i].fund_id : i \in 1..Len(funds) }

\* `order` is the order in which the for loop meets the elements of the
\* Python set orphaned_records (string hashing is seeded per process)
validate_referential_integrity_calls(order) ==
    MapSeq(order, LAMBDA id :
        Call(id, "Referential Integrity", "High", "fund_id",
             Some("Exists in fund master"), id,
             << "Performance records exist for fund_id '", ToString(id),
                "' but fund not in master data" >>))

-----------------------------------------------------------------------------
(* Rule 7: validate_cross_source *)

\* Division of n by d > 0 rounded to the nearest integer, ties to even
\* (round() and format() on an exactly representable value)
RoundDiv(n, d) ==
    LET q == n \div d
        r == n - q * d
    IN  IF 2 * r < d THEN q
        ELSE IF 2 * r > d THEN q + 1
        ELSE IF q % 2 = 0 THEN q ELSE q + 1

\* A variant which takes a missing reported AUM for zero
RegLatest_NullAsZero(reg, fund_id) ==
    LET rows == SelectSeq(reg, LAMBDA g : g.fund_id = fund_id /\ notna(g.reported_aum_millions))
    IN  IF rows = << >> THEN Some(0) ELSE rows[1].reported_aum_millions

\* reg_df.groupby('fund_id')['reported_aum_millions'].first(): for a fund_id,
\* the first non-null reported AUM in table order, NaN when there is none
RegLatest(reg, fund_id) ==
    LET rows == SelectSeq(reg, LAMBDA g : g.fund_id = fund_id /\ notna(g.reported_aum_millions))
    IN  IF rows = << >> THEN Null ELSE rows[1].reported_aum_millions

\* The fund_ids that are group keys of reg_latest (null keys are dropped)
RegKeys(reg) == { reg[i].fund_id : i \in 1..Len(reg) } \ { Null }

\* comparison['variance_pct'] of one merged row: "nan", "inf" or the
\* percentage as the exact fraction num / den
VariancePct(size, aum) ==
    IF isna(size) \/ isna(aum) THEN [ kind |-> "nan" ]
    ELSE IF Val(aum) = 0
         THEN IF Val(size) = 0 THEN [ kind |-> "nan" ] ELSE [ kind |-> "inf" ]
         ELSE [ kind |-> "num",
                num  |-> 100 * Abs(Val(size) - Val(aum)),
                den  |-> Abs(Val(aum)) ]

\* A variant which compares with >=
VarianceAbove_OrEqual(v, t) ==
    CASE v.kind = "nan" -> FALSE
      [] v.kind = "inf" -> TRUE
      [] OTHER          -> v.num >= t * v.den

\* variance_pct > t, as floating point compares (NaN > t is False)
VarianceAbove(v, t) ==
    CASE v.kind = "nan" -> FALSE
      [] v.kind = "inf" -> TRUE
      [] OTHER          -> v.num > t * v.den

\* f"{variance_pct:.1f}"
VarianceText(v) ==
    CASE v.kind = "nan" -> "nan"
      [] v.kind = "inf" -> "inf"
      [] OTHER          -> ToString(RoundDiv(10 * v.num, v.den))

validate_cross_source_calls(funds, reg) ==
    LET comparison ==
            SelectSeq(funds, LAMBDA r : r.fund_id \in RegKeys(reg))
        Var(r) == VariancePct(r.fund_size_usd_millions, RegLatest(reg, r.fund_id))
        significant_variance ==
            SelectSeq(comparison, LAMBDA r : VarianceAbove(Var(r), VarianceThreshold))
    IN  MapSeq(significant_variance, LAMBDA r :
            Call(r.fund_id, "Cross-Source Variance",
                 IF VarianceAbove(Var(r), 30) THEN "Critical"
                 ELSE IF VarianceAbove(Var(r), 15) THEN "High" ELSE "Medium",
                 "fund_size_usd_millions",
                 Some(<< "$", ToString(Val(RegLatest(reg, r.fund_id))), "M (regulatory)" >>),
                 Some(<< "$", ToString(Val(r.fund_size_usd_millions)), "M (manager)" >>),
                 << "Significant variance between manager-reported ($",
                    ToString(Val(r.fund_size_usd_millions)),
                    "M) and regulatory filing ($",
                    ToString(Val(RegLatest(reg, r.fund_id))), "M): ",
                    VarianceText(Var(r)), "%" >>))

-----------------------------------------------------------------------------
(* save_issues *)

\* DataFrame(rows).to_sql(table, if_exists='replace') guarded by `if rows:`
ReplaceIfAny(table, rows) == IF rows # << >> THEN rows ELSE table

-----------------------------------------------------------------------------
(* MetricsGenerator: 03_generate_metrics.py *)

\* Scores are percentages in hundredths: round(x, 2) of num / den * 100
Pct(num, den) == RoundDiv(num * 10000, den)

\* MetricsGenerator.log_metric: the dict appended to self.metrics; values
\* and targets are in hundredths (round(value, 2))
Metric(date, name, value, target, entity_type, entity_name) ==
    [ metric_date   |-> date,
      metric_name   |-> name,
      metric_value  |-> value,
      target_value  |-> target,
      entity_type   |-> entity_type,
      entity_name   |-> entity_name,
      calculation_timestamp |-> date ]

\* required_fields of calculate_completeness_score
CompletenessFields ==
    << "fund_id", "fund_name", "manager_name", "fund_type", "vintage_year",
       "fund_size_usd_millions", "administrator", "strategy", "geography",
       "sector_focus" >>

\* df[df[col] == value]: a null value matches no row
RowsWhere(rows, col, value) ==
    SelectSeq(rows, LAMBDA r : notna(value) /\ r[col] = value)

\* df[col].unique()
UniqueOf(rows, col) == Unique(MapSeq(rows, LAMBDA r : r[col]))

\* sum(df[field].notna().sum() for field in required_fields)
PopulatedCells(rows) ==
    SeqSum(MapSeq(CompletenessFields, LAMBDA f :
        Len(SelectSeq(rows, LAMBDA r : notna(r[f])))))

CompletenessScore(rows) ==
    LET total_cells == Len(rows) * Len(CompletenessFields)
    IN  IF total_cells > 0 THEN Pct(PopulatedCells(rows), total_cells) ELSE 0

\* calculate_completeness_score: the metrics it logs
calculate_completeness_score(funds, date) ==
    << Metric(date, "Completeness Score", CompletenessScore(funds),
              CompletenessTarget, "System", Some("Overall")) >>
    \o MapSeq(UniqueOf(funds, "fund_type"), LAMBDA ft :
         Metric(date, "Completeness Score",
                CompletenessScore(RowsWhere(funds, "fund_type", ft)),
                CompletenessTarget, "Fund Type", ft))

\* SELECT DISTINCT fund_id FROM quality_issues
\*   WHERE issue_type IN ('Accuracy', 'Consistency')
AccuracyIssueFundIds(qi) ==
    { qi[i].fund_id : i \in { j \in 1..Len(qi) :
                                qi[j].issue_type \in { "Accuracy", "Consistency" } } }

FundIdsOf(rows) == { rows[i].fund_id : i \in 1..Len(rows) }

\* calculate_accuracy_score: the metrics it logs
calculate_accuracy_score(funds, qi, date) ==
    LET issues_df == AccuracyIssueFundIds(qi)
        total_funds == Len(funds)
        records_with_issues == Cardinality(issues_df)
        accuracy_score ==
            IF total_funds > 0
            THEN Pct(total_funds - records_with_issues, total_funds) ELSE 10000
        TypeScore(ft) ==
            LET type_funds == RowsWhere(funds, "fund_type", ft)
                type_total == Len(type_funds)
                type_issues == Cardinality(issues_df \cap FundIdsOf(type_funds))
            IN  IF type_total > 0
                THEN Pct(type_total - type_issues, type_total) ELSE 10000
    IN  << Metric(date, "Accuracy Score", accuracy_score, AccuracyTarget,
                  "System", Some("Overall")) >>
        \o MapSeq(UniqueOf(funds, "fund_type"), LAMBDA ft :
             Metric(date, "Accuracy Score", TypeScore(ft), AccuracyTarget,
                    "Fund Type", ft))

\* df['days_old'] <= timeliness_days (NaN compares False)
Timely(r, day) ==
    notna(r.last_updated) /\ DaysOld(r.last_updated, day) <= TimelinessDays

TimelinessScore(rows, day) ==
    IF Len(rows) > 0
    THEN Pct(Len(SelectSeq(rows, LAMBDA r : Timely(r, day))), Len(rows)) ELSE 10000

\* calculate_timeliness_score: the metrics it logs (target 95.0)
calculate_timeliness_score(funds, day, date) ==
    << Metric(date, "Timeliness Score", TimelinessScore(funds, day), 9500,
              "System", Some("Overall")) >>
    \o MapSeq(UniqueOf(funds, "fund_type"), LAMBDA ft :
         Metric(date, "Timeliness Score",
                TimelinessScore(RowsWhere(funds, "fund_type", ft), day), 9500,
                "Fund Type", ft))

\* quality_score of one manager in calculate_manager_quality_scores
ManagerQualityScore(funds, qi, manager) ==
    LET manager_funds == RowsWhere(funds, "manager_name", manager)
        total_funds == Len(manager_funds)
        manager_issues ==
            Len(SelectSeq(qi, LAMBDA i : i.fund_id \in FundIdsOf(manager_funds)))
        clean_funds == total_funds - manager_issues
    IN  IF total_funds > 0 THEN Pct(clean_funds, total_funds) ELSE 10000

\* calculate_manager_quality_scores: the metrics it logs (target 85.0)
calculate_manager_quality_scores(funds, qi, date) ==
    Flatten(MapSeq(UniqueOf(funds, "manager_name"), LAMBDA m :
        << Metric(date, "Manager Quality Score",
                  ManagerQualityScore(funds, qi, m), 8500, "Manager", m),
           Metric(date, "Manager Quality Tier",
                  ManagerQualityScore(funds, qi, m), 8500, "Manager", m) >>))

\* config.get_manager_tier; the score is in hundredths of a percent
get_manager_tier(quality_score) ==
    IF 9500 <= quality_score /\ quality_score < 10000 THEN "Tier 1 (Excellent)"
    ELSE IF 8500 <= quality_score /\ quality_score < 9500 THEN "Tier 2 (Good)"
    ELSE IF 7000 <= quality_score /\ quality_score < 8500
         THEN "Tier 3 (Needs Improvement)"
    ELSE "Tier 4 (Critical)"

\* A variant which takes the last score of that name, whatever its entity
SystemValue_AnyEntity(ms, name) ==
    LET hits == SelectSeq(ms, LAMBDA m : m.metric_name = name)
    IN  IF hits = << >> THEN 10000 ELSE hits[Len(hits)].metric_value

\* next((m['metric_value'] for m in self.metrics if name and System), 100)
SystemValue(ms, name) ==
    LET hits == SelectSeq(ms, LAMBDA m :
                    m.metric_name = name /\ m.entity_type = "System")
    IN  IF hits = << >> THEN 10000 ELSE hits[1].metric_value

\* calculate_overall_dq_score: the metric it logs (target 90.0)
calculate_overall_dq_score(ms, date) ==
    << Metric(date, "Overall Data Quality Score",
              RoundDiv(30 * SystemValue(ms, "Completeness Score")
                         + 50 * SystemValue(ms, "Accuracy Score")
                         + 20 * SystemValue(ms, "Timeliness Score"), 100),
              9000, "System", Some("Overall")) >>

\* calculate_issue_metrics: the metrics it logs (none when the table is empty)
calculate_issue_metrics(qi, date) ==
    IF Len(qi) = 0 THEN << >>
    ELSE << Metric(date, "Total Issues", 100 * Len(qi), 0, "System", Some("Overall")) >>
         \o MapSeq(<< "Critical", "High", "Medium", "Low" >>, LAMBDA sev :
              Metric(date, sev \o " Issues",
                     100 * Len(SelectSeq(qi, LAMBDA i : i.severity = sev)), 0,
                     "System", Some("Overall")))
         \o MapSeq(Unique(MapSeq(qi, LAMBDA i : i.issue_type)), LAMBDA t :
              Metric(date, "Issues - " \o t,
                     100 * Len(SelectSeq(qi, LAMBDA i : i.issue_type = t)), 0,
                     "System", Some("Overall")))

\* save_metrics: to_sql('quality_metrics', if_exists='append'), guarded by
\* `if self.metrics:`
AppendIfAny(table, rows) == IF rows # << >> THEN table \o rows ELSE table

-----------------------------------------------------------------------------
(* Ingestion and standardization: 01_ingest_standardize.py *)

\* CURRENCY_RATES in ten-thousandths; 0 stands for "not in CURRENCY_RATES"
CurrencyRate(currency) ==
    IF isna(currency) THEN 0
    ELSE CASE Val(currency) = "USD" -> 10000
           [] Val(currency) = "EUR" -> 10800
           [] Val(currency) = "GBP" -> 12700
           [] Val(currency) = "JPY" -> 67
           [] Val(currency) = "CHF" -> 11200
           [] Val(currency) = "CNY" -> 1400
           [] Val(currency) = "CAD" -> 7300
           [] OTHER                 -> 0

\* config.convert_to_usd: an unknown currency leaves the amount as it is
convert_to_usd(amount, currency) ==
    IF CurrencyRate(currency) = 0 THEN amount
    ELSE RoundDiv(amount * CurrencyRate(currency), 10000)

\* _apply_fund_master_remediations on one row of raw_fund_master
apply_fund_master_remediations(row, day) ==
    LET size ==
            IF notna(row.fund_size_millions) /\ Val(row.fund_size_millions) < 0
            THEN Some(Abs(Val(row.fund_size_millions)))
            ELSE row.fund_size_millions
        vintage ==
            IF notna(row.vintage_year) /\ Val(row.vintage_year) > Year(day)
            THEN Some(Year(day)) ELSE row.vintage_year
        target ==
            IF /\ notna(row.target_size_millions) /\ notna(size)
               /\ Val(row.target_size_millions) < Val(size)
            THEN Some(RoundDiv(Val(size) * 105, 100))
            ELSE row.target_size_millions
        admin ==
            IF isna(row.administrator) THEN Some("Pending Assignment")
            ELSE row.administrator
        updated ==
            IF OlderThan(row.last_updated, 365, day) THEN Some(day - 120)
            ELSE row.last_updated
    IN  [ row EXCEPT !.fund_size_millions = size,
                     !.vintage_year = vintage,
                     !.target_size_millions = target,
                     !.administrator = admin,
                     !.last_updated = updated ]

\* standardize_fund_master on one row: the row of standardized_funds
standardize_fund(raw, day) ==
    LET row == apply_fund_master_remediations(raw, day)
    IN  [ fund_id       |-> row.fund_id,
          fund_name     |-> row.fund_name,
          manager_name  |-> row.manager_name,
          fund_type     |-> row.fund_type,
          strategy      |-> row.strategy,
          vintage_year  |-> row.vintage_year,
          fund_size_usd_millions |->
              IF notna(row.fund_size_millions)
              THEN Some(convert_to_usd(Val(row.fund_size_millions), row.currency))
              ELSE Null,
          original_currency |-> row.currency,
          target_size_usd_millions |->
              IF notna(row.target_size_millions)
              THEN Some(convert_to_usd(Val(row.target_size_millions), row.currency))
              ELSE Null,
          geography     |-> row.geography,
          sector_focus  |-> row.sector_focus,
          administrator |-> row.administrator,
          last_updated  |-> row.last_updated ]

Clip(x, lo, hi) == IF x < lo THEN lo ELSE IF x > hi THEN hi ELSE x

FillNa0(x) == IF isna(x) THEN 0 ELSE Val(x)

\* _apply_performance_remediations on one row of raw_performance.
\* Python reads the mask of the TVPI fix as
\*   (tvpi.notna() & (tvpi - recalculated).abs()) > 0.05
\* (& binds tighter than >): the difference is cast to bool, so every
\* present TVPI that differs at all from round(dpi + rvpi, 2) is replaced.
apply_performance_remediations(row) ==
    LET irr == IF notna(row.irr_net_pct)
               THEN Some(Clip(Val(row.irr_net_pct), -5000, 12000)) ELSE Null
        dpi == IF notna(row.dpi) THEN Some(Abs(Val(row.dpi))) ELSE Null
        rvpi == IF notna(row.rvpi) THEN Some(Abs(Val(row.rvpi))) ELSE Null
        recalculated_tvpi == FillNa0(dpi) + FillNa0(rvpi)
        tvpi1 == IF notna(row.tvpi) /\ Val(row.tvpi) # recalculated_tvpi
                 THEN Some(recalculated_tvpi) ELSE row.tvpi
        tvpi2 == IF isna(tvpi1) /\ notna(dpi) /\ notna(rvpi)
                 THEN Some(recalculated_tvpi) ELSE tvpi1
        monthly == IF notna(row.monthly_return_pct)
                   THEN Some(Clip(Val(row.monthly_return_pct), -800, 1000)) ELSE Null
    IN  [ row EXCEPT !.irr_net_pct = irr, !.dpi = dpi, !.rvpi = rvpi,
                     !.tvpi = tvpi2, !.monthly_return_pct = monthly ]

\* df['tvpi_calculated'] = df['dpi'] + df['rvpi']
TvpiCalculated(dpi, rvpi) ==
    IF notna(dpi) /\ notna(rvpi) THEN Some(Val(dpi) + Val(rvpi)) ELSE Null

\* standardize_performance on one row: the row of standardized_performance
standardize_perf(raw) ==
    LET row == apply_performance_remediations(raw)
    IN  [ fund_id         |-> row.fund_id,
          irr_net_pct     |-> row.irr_net_pct,
          dpi             |-> row.dpi,
          rvpi            |-> row.rvpi,
          tvpi            |-> row.tvpi,
          tvpi_calculated |-> TvpiCalculated(row.dpi, row.rvpi),
          monthly_return_pct |-> row.monthly_return_pct ]

\* export_all_tables: rows written to data/output/<table>.csv
ExportOf(funds, perf, qi, qm, qa) ==
    [ standardized_funds       |-> Some(Len(funds)),
      standardized_performance |-> Some(Len(perf)),
      quality_issues           |-> Some(Len(qi)),
      quality_metrics          |-> Some(Len(qm)),
      quality_alerts           |-> Some(Len(qa)) ]

\* data/output before any export
NothingExported ==
    [ standardized_funds       |-> Null,
      standardized_performance |-> Null,
      quality_issues           |-> Null,
      quality_metrics          |-> Null,
      quality_alerts           |-> Null ]

-----------------------------------------------------------------------------
(* The scripts as steps over the shared database *)

\* No table holds a row and nothing has been written to data/output
EmptySink ==
    /\ quality_issues = << >>
    /\ quality_alerts = << >>
    /\ quality_metrics = << >>
    /\ critical_alerts_csv = << >>
    /\ exported = NothingExported

\* 02 main: validator = DataQualityValidator()
StartValidation ==
    /\ pc = "idle"
    /\ runs < MaxRuns
    /\ SetValidator(NewValidator(today))
    /\ pc' = "v_completeness"
    /\ runs' = runs + 1
    /\ UNCHANGED << storevars, sinkvars, generatorvars, today >>

\* One rule of 02 main: the rule's log_issue calls, in order
RuleStep(at, calls, next) ==
    /\ pc = at
    /\ SetValidator(LogAll(Validator, calls))
    /\ pc' = next
    /\ UNCHANGED << storevars, sinkvars, generatorvars, runs, today >>

ValidateCompleteness ==
    RuleStep("v_completeness",
             validate_completeness_calls(standardized_funds), "v_accuracy")

ValidateAccuracy ==
    RuleStep("v_accuracy",
             validate_accuracy_calls(standardized_funds, standardized_performance, today),
             "v_consistency")

ValidateConsistency ==
    RuleStep("v_consistency",
             validate_consistency_calls(standardized_funds, standardized_performance),
             "v_timeliness")

ValidateTimeliness ==
    RuleStep("v_timeliness",
             validate_timeliness_calls(standardized_funds, today), "v_duplicates")

ValidateDuplicates ==
    RuleStep("v_duplicates",
             validate_duplicates_calls(standardized_funds), "v_referential")

ValidateReferentialIntegrity ==
    \E order \in Perms(OrphanedRecords(standardized_funds, standardized_performance)) :
        RuleStep("v_referential",
                 validate_referential_integrity_calls(order), "v_cross_source")

ValidateCrossSource ==
    RuleStep("v_cross_source",
             validate_cross_source_calls(standardized_funds, raw_regulatory), "v_save")

\* DataQualityValidator.save_issues
SaveIssues ==
    /\ pc = "v_save"
    /\ quality_issues' = ReplaceIfAny(quality_issues, issues)
    /\ quality_alerts' = ReplaceIfAny(quality_alerts, alerts)
    /\ critical_alerts_csv' = ReplaceIfAny(critical_alerts_csv, alerts)
    /\ pc' = "v_summary"
    /\ UNCHANGED << storevars, quality_metrics, exported, validatorvars,
                    generatorvars, runs, today >>

\* print_summary(); close(): the script ends
FinishValidation ==
    /\ pc = "v_summary"
    /\ pc' = "idle"
    /\ UNCHANGED << storevars, sinkvars, validatorvars, generatorvars, runs, today >>

\* 03 main: generator = MetricsGenerator()
StartMetrics ==
    /\ pc = "idle"
    /\ runs < MaxRuns
    /\ metrics' = << >>
    /\ metric_date' = today
    /\ pc' = "m_completeness"
    /\ runs' = runs + 1
    /\ UNCHANGED << storevars, sinkvars, validatorvars, today >>

\* One calculate_* call of 03 main: the metrics it logs are appended
MetricStep(at, logged, next) ==
    /\ pc = at
    /\ metrics' = metrics \o logged
    /\ pc' = next
    /\ UNCHANGED << storevars, sinkvars, validatorvars, metric_date, runs, today >>

CalculateCompleteness ==
    MetricStep("m_completeness",
               calculate_completeness_score(standardized_funds, metric_date),
               "m_accuracy")

CalculateAccuracy ==
    MetricStep("m_accuracy",
               calculate_accuracy_score(standardized_funds, quality_issues, metric_date),
               "m_timeliness")

CalculateTimeliness ==
    MetricStep("m_timeliness",
               calculate_timeliness_score(standardized_funds, today, metric_date),
               "m_manager")

CalculateManagerQuality ==
    MetricStep("m_manager",
               calculate_manager_quality_scores(standardized_funds, quality_issues, metric_date),
               "m_overall")

CalculateOverall ==
    MetricStep("m_overall", calculate_overall_dq_score(metrics, metric_date), "m_issues")

CalculateIssueMetrics ==
    MetricStep("m_issues", calculate_issue_metrics(quality_issues, metric_date), "m_save")

\* MetricsGenerator.save_metrics
SaveMetrics ==
    /\ pc = "m_save"
    /\ quality_metrics' = AppendIfAny(quality_metrics, metrics)
    /\ pc' = "m_report"
    /\ UNCHANGED << storevars, quality_issues, quality_alerts, critical_alerts_csv,
                    exported, validatorvars, generatorvars, runs, today >>

\* generate_summary_report(); print_summary(); close(): the script ends
FinishMetrics ==
    /\ pc = "m_report"
    /\ pc' = "idle"
    /\ UNCHANGED << storevars, sinkvars, validatorvars, generatorvars, runs, today >>

\* 04: export_all_tables
Export ==
    /\ pc = "idle"
    /\ runs < MaxRuns
    /\ exported' = ExportOf(standardized_funds, standardized_performance,
                            quality_issues, quality_metrics, quality_alerts)
    /\ runs' = runs + 1
    /\ UNCHANGED << storevars, quality_issues, quality_alerts, quality_metrics,
                    critical_alerts_csv, validatorvars, generatorvars, pc, today >>

\* The rows an ingest step loads from `file`: when the file cannot be read
\* the step catches the exception and returns False, and the table stays
\* as initialize_database created it, empty
Loaded(raw, file, rows) == IF file \in raw.missing THEN << >> ELSE rows

\* The exit status of 01: main returns normally whatever `success` is
IngestExitCode(success) == 0

\* 01 main on input files `raw`: initialize_database drops and recreates
\* every table, then the files are loaded and standardized.  A step that
\* fails is reported and the script goes on and ends normally.  Files
\* under data/output are not touched.
Ingest(raw) ==
    /\ pc \in { "nodb", "idle" }
    /\ runs < MaxRuns
    /\ standardized_funds' =
         MapSeq(Loaded(raw, "fund_master.csv", raw.funds),
                LAMBDA r : standardize_fund(r, today))
    /\ standardized_performance' =
         MapSeq(Loaded(raw, "fund_performance.json", raw.perf), standardize_perf)
    /\ raw_regulatory' = Loaded(raw, "regulatory_filings.json", raw.reg)
    /\ load_failed' = raw.missing
    /\ quality_issues' = << >>
    /\ quality_alerts' = << >>
    /\ quality_metrics' = << >>
    /\ pc' = "idle"
    /\ runs' = runs + 1
    /\ UNCHANGED << critical_alerts_csv, exported, validatorvars, generatorvars, today >>

\* Midnight passes while no script runs
NextDay ==
    /\ pc = "idle"
    /\ today < MaxDay
    /\ today' = today + 1
    /\ UNCHANGED << storevars, sinkvars, validatorvars, generatorvars, pc, runs >>

-----------------------------------------------------------------------------
(* Input files of the pipeline specification *)

\* A row of fund_master.csv with nothing wrong
RawFund(id, manager, name) ==
    [ fund_id       |-> Some(id),
      fund_name     |-> Some(name),
      manager_name  |-> Some(manager),
      fund_type     |-> Some("Private Equity"),
      strategy      |-> Some("Buyout"),
      vintage_year  |-> Some(2020),
      fund_size_millions   |-> Some(10000),
      currency      |-> Some("USD"),
      target_size_millions |-> Some(12000),
      geography     |-> Some("North America"),
      sector_focus  |-> Some("Technology"),
      administrator |-> Some("Citco"),
      last_updated  |-> Some(-10) ]

\* A record of fund_performance.json with nothing wrong
RawPerf(id) ==
    [ fund_id |-> Some(id), irr_net_pct |-> Some(1200), dpi |-> Some(80),
      rvpi |-> Some(100), tvpi |-> Some(180), monthly_return_pct |-> Null ]

\* A record of regulatory_filings.json
Filing(id, aum) == [ fund_id |-> id, reported_aum_millions |-> aum ]

RawFundFiles ==
    { << [ RawFund("F1", "Apex Capital", "Fund I")
             EXCEPT !.fund_type = Some(v[1]), !.vintage_year = Some(v[2]) ] >> \o rest :
        v \in { << "Private Equity", 2020 >>, << "Real Estate", 2020 >>,
                << "Real Estate", 1900 >> },
        rest \in { << >>,
                   << RawFund("F2", "Apex Capital", "Fund II") >>,
                   << [ RawFund("F2", "Birch Partners", "Fund II")
                          EXCEPT !.fund_type = Some("Hedge Fund") ] >> } }

RawPerfFiles ==
    { << RawPerf("F1") >>,
      << RawPerf("F1"), [ RawPerf("FX") EXCEPT !.dpi = Some(2500) ] >> }

RawFilingFiles ==
    { << Filing(Some("F1"), Some(10000)) >>,
      << Filing(Some("F1"), Some(5000)) >>,
      << Filing(Some("F1"), Some(0)) >> }

\* Input directories in which every file can be read
RawSnapshots ==
    [ funds : RawFundFiles, perf : RawPerfFiles, reg : RawFilingFiles,
      missing : { {} } ]

InputFiles == { "fund_master.csv", "fund_performance.json", "regulatory_filings.json" }

\* Input directories in which one file is absent or malformed
BrokenSnapshots ==
    { [ raw EXCEPT !.missing = { f } ] : raw \in RawSnapshots, f \in InputFiles }

-----------------------------------------------------------------------------
(* Pipeline specification: the four scripts, run in any order *)

Init ==
    /\ standardized_funds = << >>
    /\ standardized_performance = << >>
    /\ raw_regulatory = << >>
    /\ load_failed = {}
    /\ EmptySink
    /\ issues = << >>
    /\ alerts = << >>
    /\ stats = InitStats
    /\ validation_timestamp = 0
    /\ metrics = << >>
    /\ metric_date = 0
    /\ pc = "nodb"
    /\ runs = 0
    /\ today = 0

ValidationNext ==
    \/ ValidateCompleteness
    \/ ValidateAccuracy
    \/ ValidateConsistency
    \/ ValidateTimeliness
    \/ ValidateDuplicates
    \/ ValidateReferentialIntegrity
    \/ ValidateCrossSource
    \/ SaveIssues
    \/ FinishValidation

MetricsNext ==
    \/ CalculateCompleteness
    \/ CalculateAccuracy
    \/ CalculateTimeliness
    \/ CalculateManagerQuality
    \/ CalculateOverall
    \/ CalculateIssueMetrics
    \/ SaveMetrics
    \/ FinishMetrics

Next ==
    \/ \E raw \in RawSnapshots : Ingest(raw)
    \/ StartValidation
    \/ ValidationNext
    \/ StartMetrics
    \/ MetricsNext
    \/ Export
    \/ NextDay

Spec == Init /\ [][Next]_vars

-----------------------------------------------------------------------------
(* Aggregator specification: arbitrary log_issue calls on a fresh validator *)

AggFundIds == { Some("F1"), Some("F2") }
AggIssueTypes == { "Accuracy", "Timeliness" }
AggSeverities == { "Critical", "High", "Medium", "Low", "Info" }
AggDescriptions == { << "d1" >>, << "d2" >> }

AggCalls ==
    { Call(f, t, s, "field", Some("expected"), Null, d) :
        f \in AggFundIds, t \in AggIssueTypes,
        s \in AggSeverities, d \in AggDescriptions }

AggInit ==
    /\ standardized_funds = << >>
    /\ standardized_performance = << >>
    /\ raw_regulatory = << >>
    /\ load_failed = {}
    /\ EmptySink
    /\ issues = NewValidator(0).issues
    /\ alerts = NewValidator(0).alerts
    /\ stats = NewValidator(0).stats
    /\ validation_timestamp = NewValidator(0).validation_timestamp
    /\ metrics = << >>
    /\ metric_date = 0
    /\ pc = "validator"
    /\ runs = 0
    /\ today = 0

\* One call validator.log_issue(...)
LogIssueCall(c) ==
    /\ pc = "validator"
    /\ Len(issues) < MaxLogCalls
    /\ SetValidator(log_issue(Validator, c))
    /\ UNCHANGED << storevars, sinkvars, generatorvars, pc, runs, today >>

AggNext == \E c \in AggCalls : LogIssueCall(c)

SpecAgg == AggInit /\ [][AggNext]_vars

-----------------------------------------------------------------------------
(* Claims about the aggregator *)

\* Positions of the Critical issues in the issue list, in order
CriticalIdx(iss) ==
    SelectSeq([ i \in 1..Len(iss) |-> i ], LAMBDA i : iss[i].severity = "Critical")

\* C1: after any sequence of log_issue calls on a fresh validator the number
\* of alerts equals the number of Critical issues logged, and the k-th alert
\* carries the fund_id, issue type (as rule_violated), severity and
\* description of the k-th Critical issue; so every alert has its issue.
C1_AlertsMirrorCriticalIssues ==
    LET ci == CriticalIdx(issues)
    IN  /\ Len(alerts) = Len(ci)
        /\ \A k \in 1..Len(alerts) :
             /\ alerts[k].fund_id = issues[ci[k]].fund_id
             /\ alerts[k].rule_violated = issues[ci[k]].issue_type
             /\ alerts[k].severity = issues[ci[k]].severity
             /\ alerts[k].description = issues[ci[k]].issue_description

\* C1 witness: two Critical issues with a non-Critical one between them,
\* on different funds, each with its alert.
C1_Witness ==
    /\ Len(issues) = 3
    /\ issues[1].severity = "Critical"
    /\ issues[2].severity = "High"
    /\ issues[3].severity = "Critical"
    /\ issues[1].fund_id # issues[3].fund_id
    /\ Len(alerts) = 2

\* C2: the alert identifier is assigned in the log_issue call that logs the
\* Critical issue (the step that appends the issue appends its alert), has
\* the form ALERT-%04d, and the k-th alert created has number k; no two
\* alerts share an identifier and an alert never changes afterwards.
C2_AlertIdsSequential ==
    /\ [](/\ \A k \in 1..Len(alerts) :
               alerts[k].alert_id = [ prefix |-> "ALERT-",
                                      digits |-> << 0, 0, 0, k >> ]
          /\ \A j, k \in 1..Len(alerts) :
               alerts[j].alert_id = alerts[k].alert_id => j = k)
    /\ [][ /\ Len(issues') = Len(issues) + 1
           /\ IF issues'[Len(issues')].severity = "Critical"
              THEN /\ Len(alerts') = Len(alerts) + 1
                   /\ SubSeq(alerts', 1, Len(alerts)) = alerts
                   /\ alerts'[Len(alerts')].alert_id.digits
                        = << 0, 0, 0, Len(alerts) + 1 >>
              ELSE alerts' = alerts ]_vars

\* C2 witness: three alerts numbered 1, 2, 3 exist.
C2_Witness ==
    /\ Len(alerts) = 3
    /\ alerts[3].alert_id = AlertId(3)

-----------------------------------------------------------------------------
(* Rules specification: one validation run over any database of the bounds *)

FundNames == << "Fund I", "Fund II", "Fund III", "Fund IV" >>

\* The fund_id of the i-th fund
FundId(i) == "F" \o ToString(i)

\* A row of standardized_funds with nothing wrong
StdFund(i) == standardize_fund(RawFund(FundId(i), "Apex Capital", FundNames[i]), 0)

\* A row of standardized_performance with nothing wrong
StdPerf(id) == standardize_perf(RawPerf(id))

\* The rows the i-th fund can be: administrator present or null, size
\* present, zero or null
RuleFundRows(i) ==
    { [ StdFund(i) EXCEPT !.administrator = a, !.fund_size_usd_millions = z ] :
        a \in { Null, Some("Citco") },
        z \in { Null, Some(0), Some(10000) } }

RECURSIVE FundTablesOf(_)
FundTablesOf(n) ==
    IF n = 0 THEN { << >> }
    ELSE { Append(t, r) : t \in FundTablesOf(n - 1), r \in RuleFundRows(n) }

RuleFundTables == UNION { FundTablesOf(n) : n \in 1..MaxFunds }

\* Filings of fund F1: reported AUM null, zero, or 90.00
RuleFilings ==
    { Filing(Some(FundId(1)), a) : a \in { Null, Some(0), Some(9000) } }

RECURSIVE FilingTablesOf(_)
FilingTablesOf(n) ==
    IF n = 0 THEN { << >> }
    ELSE { Append(t, g) : t \in FilingTablesOf(n - 1), g \in RuleFilings }

RuleFilingTables == UNION { FilingTablesOf(n) : n \in 0..MaxFilings }

\* Performance of fund F1, or of two funds that are not in the master
RulePerfTables ==
    { << StdPerf(FundId(1)) >>, << StdPerf("FX"), StdPerf("FY") >> }

\* The tables whose i-th row is drawn from the i-th set of `rowsets`
RECURSIVE TablesOver(_)
TablesOver(rowsets) ==
    IF rowsets = << >> THEN { << >> }
    ELSE { Append(t, r) :
             t \in TablesOver(SubSeq(rowsets, 1, Len(rowsets) - 1)),
             r \in rowsets[Len(rowsets)] }

\* Tables of n rows, the i-th row drawn from Rows(i)
TablesOf(n, Rows(_)) == TablesOver([ i \in 1..n |-> Rows(i) ])

\* Tables of 1..n rows
TablesUpTo(n, Rows(_)) == UNION { TablesOf(k, Rows) : k \in 1..n }

\* Databases in which administrators, fund sizes and filings vary
CrossSourceDatabases ==
    [ funds : RuleFundTables, perf : RulePerfTables, reg : RuleFilingTables ]

\* The rows the i-th fund can be: fund type allowed, not allowed or null,
\* currency allowed or not
CategoricalFundRows(i) ==
    { [ StdFund(i) EXCEPT !.fund_type = t, !.original_currency = c ] :
        t \in { Some("Private Equity"), Some("Real Estate"), Null },
        c \in { Some("USD"), Some("AUD") } }

\* Databases in which the categorical fields of the funds vary
CategoricalDatabases ==
    [ funds : TablesUpTo(MaxFunds, CategoricalFundRows),
      perf  : { << StdPerf(FundId(1)) >> },
      reg   : { << >> } ]

\* The rows the i-th fund can be: one numeric field at, inside or outside
\* the bounds of its range, or null
NumericFundRows(i) ==
    { [ StdFund(i) EXCEPT !.fund_size_usd_millions = z ] :
        z \in { Null, Some(-500), Some(0), Some(10000000), Some(10000001) } }
    \cup
    { [ StdFund(i) EXCEPT !.vintage_year = y ] :
        y \in { Null, Some(-1), Some(1949), Some(1950), Some(2026), Some(2027) } }
    \cup
    { [ StdFund(i) EXCEPT !.target_size_usd_millions = g ] :
        g \in { Null, Some(-1), Some(10000000), Some(10000001) } }
    \cup
    { [ StdFund(i) EXCEPT !.fund_size_usd_millions = Some(-500),
                          !.target_size_usd_millions = Some(-1) ] }

\* Databases in which the numeric fields of the funds vary
NumericDatabases ==
    [ funds : TablesUpTo(MaxFunds, NumericFundRows),
      perf  : { << StdPerf(FundId(1)) >> },
      reg   : { << >> } ]

\* An observation of the i-th fund with the given DPI, RVPI and TVPI
Observation(i, dpi, rvpi, tvpi) ==
    [ StdPerf(FundId(i)) EXCEPT !.dpi = dpi, !.rvpi = rvpi, !.tvpi = tvpi,
                                !.tvpi_calculated = TvpiCalculated(dpi, rvpi) ]

\* The rows the i-th observation can be: TVPI equal to DPI + RVPI, one
\* hundredth or more away from it, or one of the three null
ConsistencyPerfRows(i) ==
    { Observation(i, Some(80), Some(100), t) :
        t \in { Null, Some(180), Some(181), Some(179), Some(190) } }
    \cup
    { Observation(i, Some(50), Some(150), t) : t \in { Some(201), Some(199) } }
    \cup
    { Observation(i, Some(50), Some(100), Some(150)),
      Observation(i, Null, Some(100), Some(190)),
      Observation(i, Some(80), Null, Some(190)) }

\* Databases in which DPI, RVPI and TVPI of the observations vary
ConsistencyDatabases ==
    [ funds : { << StdFund(1) >>, << StdFund(1), StdFund(2), StdFund(3) >> },
      perf  : TablesUpTo(MaxObservations, ConsistencyPerfRows),
      reg   : { << >> } ]

\* The rows the i-th fund can be when managers and fund names repeat:
\* either name may be missing
DuplicateFundRows(i) ==
    { [ StdFund(i) EXCEPT !.manager_name = m, !.fund_name = n ] :
        m \in { Null, Some("Apex Capital"), Some("Birch Partners") },
        n \in { Null, Some("Fund I") } }

\* Databases in which funds share a manager and a fund name
DuplicateDatabases ==
    [ funds : TablesUpTo(MaxFunds + 1, DuplicateFundRows),
      perf  : { << >> },
      reg   : { << >> } ]

\* The observations a performance table can hold: of funds F1 and F2, and
\* of two fund_ids the fund master never has
ReferentialPerfRows(i) ==
    { StdPerf(id) : id \in { FundId(1), FundId(2), "FX", "FY" } }

\* Databases in which observations repeat fund_ids, in and out of the master
ReferentialDatabases ==
    [ funds : { << StdFund(1) >>, << StdFund(1), StdFund(2) >> },
      perf  : TablesUpTo(MaxObservations + 1, ReferentialPerfRows),
      reg   : { << >> } ]

\* The rows the i-th fund can be when its size is compared with a filed AUM
\* of 90.00: equal, below, at and just above a variance of 5, 15 and 30 per
\* cent, or null
ThresholdFundRows(i) ==
    { [ StdFund(i) EXCEPT !.fund_size_usd_millions = z ] :
        z \in { Null, Some(9000), Some(9450), Some(9451), Some(8550),
                Some(10350), Some(10351), Some(11700), Some(11701),
                Some(6300), Some(6299) } }

\* Filings of 90.00 for fund F1 alone, for F1 twice, for F1 and a fund_id
\* with no fund, and for that fund_id alone
ThresholdFilingTables ==
    { << Filing(Some(FundId(1)), Some(9000)) >>,
      << Filing(Some(FundId(1)), Some(9000)), Filing(Some(FundId(1)), Some(9000)) >>,
      << Filing(Some("FX"), Some(9000)), Filing(Some(FundId(1)), Some(9000)) >>,
      << Filing(Some("FX"), Some(9000)) >> }

\* Databases in which fund sizes sit around the variance thresholds
ThresholdDatabases ==
    [ funds : TablesUpTo(MaxFunds, ThresholdFundRows),
      perf  : { << >> },
      reg   : ThresholdFilingTables ]

\* The rows the i-th fund can be when its last update is null or 89, 90, 91,
\* 179, 180, 181, 365 or 366 days before the day of the run
TimelinessFundRows(i) ==
    { [ StdFund(i) EXCEPT !.last_updated = d ] :
        d \in { Null, Some(-89), Some(-90), Some(-91), Some(-179), Some(-180),
                Some(-181), Some(-365), Some(-366) } }

\* Databases in which the funds' last updates sit around the age thresholds
TimelinessDatabases ==
    [ funds : TablesUpTo(MaxFunds, TimelinessFundRows),
      perf  : { << >> },
      reg   : { << >> } ]

\* The databases validation is run on
RuleDatabases ==
    CrossSourceDatabases \cup CategoricalDatabases \cup NumericDatabases
        \cup ConsistencyDatabases \cup DuplicateDatabases
        \cup ReferentialDatabases \cup ThresholdDatabases
        \cup TimelinessDatabases

\* A database holding any of the tables above, and 02 main started on it
RulesInit ==
    /\ \E db \in RuleDatabases :
         /\ standardized_funds = db.funds
         /\ standardized_performance = db.perf
         /\ raw_regulatory = db.reg
    /\ load_failed = {}
    /\ EmptySink
    /\ issues = NewValidator(0).issues
    /\ alerts = NewValidator(0).alerts
    /\ stats = NewValidator(0).stats
    /\ validation_timestamp = NewValidator(0).validation_timestamp
    /\ metrics = << >>
    /\ metric_date = 0
    /\ pc = "v_completeness"
    /\ runs = 1
    /\ today = 0

SpecRules == RulesInit /\ [][ValidationNext]_vars

-----------------------------------------------------------------------------
(* Claims about the scores *)

ScoreNames ==
    { "Completeness Score", "Accuracy Score", "Timeliness Score",
      "Manager Quality Score" }

\* C3: every Completeness, Accuracy, Timeliness and Manager Quality score the
\* metrics generator logs, at System, Fund Type and Manager granularity, is a
\* percentage in [0, 100] (0..10000 hundredths), whatever funds and issues
\* the database holds.
C3_ScoresArePercentages ==
    \A i \in 1..Len(metrics) :
        metrics[i].metric_name \in ScoreNames
            => metrics[i].metric_value \in 0..10000

\* The fund_ids among `ids` that have at least one issue in table qi
WithAnyIssue(ids, qi) ==
    { id \in ids : \E j \in 1..Len(qi) : qi[j].fund_id = id }

\* C4: once calculate_manager_quality_scores has run, the Manager Quality
\* Score of every manager equals (the manager's funds minus the manager's
\* funds with at least one issue of any type) / the manager's funds * 100,
\* a fund with several issues counting once.
C4_ManagerScoreCountsFundsOnce ==
    pc = "m_overall" =>
        \A i \in 1..Len(metrics) :
            metrics[i].metric_name = "Manager Quality Score" =>
                LET manager_funds ==
                        RowsWhere(standardized_funds, "manager_name",
                                  metrics[i].entity_name)
                    total == Len(manager_funds)
                    flagged ==
                        Cardinality(WithAnyIssue(FundIdsOf(manager_funds),
                                                 quality_issues))
                IN  total > 0 =>
                        metrics[i].metric_value = Pct(total - flagged, total)

\* C5: once calculate_accuracy_score has run, the Accuracy Score of the System
\* and of each Fund Type equals (funds of the entity minus funds of the entity
\* with at least one Accuracy or Consistency issue) / funds of the entity
\* * 100; only fund_ids that are funds of the entity count as having issues.
C5_AccuracyCountsEntityFunds ==
    pc = "m_timeliness" =>
        \A i \in 1..Len(metrics) :
            metrics[i].metric_name = "Accuracy Score" =>
                LET entity_funds ==
                        IF metrics[i].entity_type = "System"
                        THEN standardized_funds
                        ELSE RowsWhere(standardized_funds, "fund_type",
                                       metrics[i].entity_name)
                    total == Len(entity_funds)
                    flagged ==
                        Cardinality({ id \in FundIdsOf(entity_funds) :
                            \E j \in 1..Len(quality_issues) :
                                /\ quality_issues[j].fund_id = id
                                /\ quality_issues[j].issue_type
                                     \in { "Accuracy", "Consistency" } })
                IN  total > 0 =>
                        metrics[i].metric_value = Pct(total - flagged, total)

-----------------------------------------------------------------------------
(* Claims about the sink *)

\* C6: after save_issues of any validation run the issue table holds exactly
\* the issues logged in that run, and the alert table and the critical-alerts
\* extract hold exactly that run's alerts, whatever an earlier run left there
\* (also when the run logged no issue or no Critical issue).
C6_SinkHoldsThisRunsIssuesAndAlerts ==
    pc = "v_summary" =>
        /\ quality_issues = issues
        /\ quality_alerts = alerts
        /\ critical_alerts_csv = alerts

\* C7: Metric records are only ever appended: whatever script runs, every
\* record of the metric table before the step is still there, at its place,
\* after the step.
C7_MetricsOnlyAppended ==
    [][ /\ Len(quality_metrics') >= Len(quality_metrics)
        /\ SubSeq(quality_metrics', 1, Len(quality_metrics)) = quality_metrics
      ]_vars

\* (metric_date, metric_name, entity_type, entity_name) of a Metric record
MetricKey(m) ==
    << m.metric_date, m.metric_name, m.entity_type, m.entity_name >>

\* C8: no two Metric records of the metric table share the same
\* (metric_date, metric_name, entity_type, entity_name).
C8_MetricKeyUnique ==
    \A i, j \in 1..Len(quality_metrics) :
        MetricKey(quality_metrics[i]) = MetricKey(quality_metrics[j]) => i = j

-----------------------------------------------------------------------------
(* Claims about the rules *)

\* The issues logged on field `field` of fund `fund_id` with type `type`
IssuesOn(fund_id, type, field) ==
    SelectSeq(issues, LAMBDA i :
        i.fund_id = fund_id /\ i.issue_type = type /\ i.field_name = field)

\* The issue validate_completeness logs for a missing administrator
IsAdministratorRiskIssue(i) ==
    /\ i.severity = "Medium"
    /\ i.expected_value = Some(ToString("Valid Administrator"))
    /\ i.issue_description
         = << "Missing administrator - potential self-administration risk" >>

C10_NoVarianceIssueOnZeroOrNullAum ==
    pc \in { "v_save", "v_summary" } =>
        \A i \in 1..Len(issues) :
            issues[i].issue_type = "Cross-Source Variance" =>
                LET aum == RegLatest(raw_regulatory, issues[i].fund_id)
                IN  notna(aum) /\ Val(aum) # 0

-----------------------------------------------------------------------------
(* Runner specification: run_full_pipeline.py launches the scripts in order *)

\* A variant in which the metrics script is launched before validation
Steps_MetricsFirst ==
    << "src/01_ingest_standardize.py", "src/03_generate_metrics.py",
       "src/02_validate_quality.py", "src/04_export_for_powerbi.py" >>

\* steps of run_full_pipeline.main
Steps ==
    << "src/01_ingest_standardize.py", "src/02_validate_quality.py",
       "src/03_generate_metrics.py", "src/04_export_for_powerbi.py" >>

\* Scripts of the current execution of the runner that have been launched
RunnerStep == runs % Len(Steps)

\* A variant which reports success whatever the exit status
run_script_IgnoresStatus(exit_code) == TRUE

\* run_script: True iff the script's exit status is 0; main stops the
\* pipeline (sys.exit(1)) on False
run_script(exit_code) == exit_code = 0

\* The script the for loop of main launches next: scripts are launched while
\* the list lasts
Launches(script) ==
    /\ runs < Len(Steps)
    /\ Steps[RunnerStep + 1] = script

\* Step 1 of the runner, on an input directory that may lack a file
RunIngest(raw) ==
    /\ Launches("src/01_ingest_standardize.py")
    /\ Ingest(raw)

\* Step 2, launched when step 1 returned exit status 0
RunValidation ==
    /\ Launches("src/02_validate_quality.py")
    /\ run_script(IngestExitCode(load_failed = {}))
    /\ StartValidation

\* Step 3
RunMetrics ==
    /\ Launches("src/03_generate_metrics.py")
    /\ StartMetrics

\* Step 4
RunExport ==
    /\ Launches("src/04_export_for_powerbi.py")
    /\ Export

\* The positions inside 02 main and 03 main
ScriptPositions ==
    { "v_completeness", "v_accuracy", "v_consistency", "v_timeliness",
      "v_duplicates", "v_referential", "v_cross_source", "v_save", "v_summary",
      "m_completeness", "m_accuracy", "m_timeliness", "m_manager", "m_overall",
      "m_issues", "m_save", "m_report" }

\* A running script ends on an uncaught exception (the database is locked,
\* a table cannot be read, the disk is full) and exits with status 1:
\* subprocess.run(check=True) raises CalledProcessError and run_script
\* returns False; on True the for loop of main would go on
ScriptFails ==
    /\ pc \in ScriptPositions
    /\ pc' = IF run_script(1) THEN "idle" ELSE "failed"
    /\ UNCHANGED << storevars, sinkvars, validatorvars, generatorvars, runs, today >>

\* main: `if not success: ... sys.exit(1)`
RunnerExits1 ==
    /\ pc = "failed"
    /\ pc' = "exit_1"
    /\ UNCHANGED << storevars, sinkvars, validatorvars, generatorvars, runs, today >>

\* run_full_pipeline.py is executed again, after an execution that went
\* through its four steps or exited with status 1; the objects of the
\* scripts of that execution are gone
RunnerStarts ==
    /\ \/ pc = "exit_1"
       \/ pc = "idle" /\ runs = Len(Steps)
    /\ pc' = "idle"
    /\ runs' = 0
    /\ SetValidator(NewValidator(0))
    /\ metrics' = << >>
    /\ metric_date' = 0
    /\ UNCHANGED << storevars, sinkvars, today >>

\* The input directories the runner is executed on: one fund, one
\* observation, every file readable or one of them not
RunnerSnapshots ==
    { raw \in RawSnapshots \cup BrokenSnapshots :
        Len(raw.funds) = 1 /\ Len(raw.perf) = 1 }

RunnerNext ==
    \/ \E raw \in RunnerSnapshots : RunIngest(raw)
    \/ RunValidation
    \/ ValidationNext
    \/ RunMetrics
    \/ MetricsNext
    \/ RunExport
    \/ ScriptFails
    \/ RunnerExits1
    \/ RunnerStarts

SpecRunner == Init /\ [][RunnerNext]_vars

\* C11: when loading a required collection (funds, performance, filings) has
\* failed, the run stops after the ingest step: validation and metrics are
\* not started and the run leaves no Issue, Alert or Metric record.
C11_FailedLoadAbortsRun ==
    load_failed # {} =>
        /\ RunnerStep = 1
        /\ pc = "idle"
        /\ quality_issues = << >>
        /\ quality_alerts = << >>
        /\ quality_metrics = << >>

-----------------------------------------------------------------------------
(* Claims about validate_accuracy *)

\* The fields VALIDATION_RULES tells validate_accuracy to monitor that are
\* no column of the table the rule reads
AbsentMonitoredFields ==
    ({ FundNumericRanges(today)[i].field : i \in 1..Len(FundNumericRanges(today)) }
        \ FundColumns)
    \cup ({ FundCategoricalValues[i].field : i \in 1..Len(FundCategoricalValues) }
        \ FundColumns)
    \cup ({ PerfNumericRanges[i].field : i \in 1..Len(PerfNumericRanges) }
        \ PerfColumns)

\* C12: when a field that a rule is configured to monitor is absent from the
\* columns of the snapshot, validation ends in a fatal error: it never gets
\* to save its results and complete with that field's check skipped.
C12_AbsentFieldIsFatal ==
    AbsentMonitoredFields # {} => pc \notin { "v_save", "v_summary" }

\* The value a fund has for a monitored field; the reporting currency of a
\* fund is kept in column original_currency
FundValue(r, field) ==
    IF field = "currency" THEN r.original_currency ELSE r[field]

\* C13: once validate_accuracy has run, for each monitored categorical field
\* (fund_type, currency) every fund whose value of the field is present and
\* not in the allowed set has exactly one Accuracy issue on that field, of
\* severity Medium.
C13_CategoricalIssuePerInvalidValue ==
    pc \notin { "v_completeness", "v_accuracy" } =>
        \A c \in 1..Len(FundCategoricalValues) :
            \A k \in 1..Len(standardized_funds) :
                LET rule == FundCategoricalValues[c]
                    v == FundValue(standardized_funds[k], rule.field)
                    logged == IssuesOn(standardized_funds[k].fund_id,
                                       "Accuracy", rule.field)
                IN  (notna(v) /\ Val(v) \notin rule.values) =>
                        /\ Len(logged) = 1
                        /\ logged[1].severity = "Medium"

\* The configured range of each monitored numeric field of a fund, in
\* hundredths of a million for the sizes: (0, 100000), (1950, this year)
ConfiguredFundRange(field) ==
    CASE field = "fund_size_usd_millions"   -> [ min |-> 0,    max |-> 10000000 ]
      [] field = "vintage_year"             -> [ min |-> 1950, max |-> Year(today) ]
      [] field = "target_size_usd_millions" -> [ min |-> 0,    max |-> 10000000 ]

\* C14: once validate_accuracy has run, for every fund and every monitored
\* numeric field (fund size, vintage year, target size) whose value is
\* present and outside the configured [min, max] there is exactly one
\* Accuracy issue on that field, Critical if the value is negative and High
\* otherwise, and none when the value is null or inside the range; so every
\* fund with fund_size_usd_millions < 0 has exactly one Critical Accuracy
\* issue on fund_size_usd_millions.
C14_NumericRangeIssues ==
    pc \notin { "v_completeness", "v_accuracy" } =>
        \A k \in 1..Len(standardized_funds) :
            \A field \in { "fund_size_usd_millions", "vintage_year",
                           "target_size_usd_millions" } :
                LET v == standardized_funds[k][field]
                    range == ConfiguredFundRange(field)
                    logged == IssuesOn(standardized_funds[k].fund_id,
                                       "Accuracy", field)
                IN  IF notna(v) /\ (Val(v) < range.min \/ Val(v) > range.max)
                    THEN /\ Len(logged) = 1
                         /\ logged[1].severity
                              = IF Val(v) < 0 THEN "Critical" ELSE "High"
                         /\ logged[1].actual_value = Some(ToString(Val(v)))
                    ELSE logged = << >>

\* C14 witness: validate_accuracy has run on a fund with a negative size,
\* which has its Critical issue, and a fund whose vintage year is next
\* year, which has its High issue.
C14_Witness ==
    /\ pc = "v_consistency"
    /\ Len(standardized_funds) = 2
    /\ standardized_funds[1].fund_size_usd_millions = Some(-500)
    /\ standardized_funds[2].vintage_year = Some(2027)
    /\ \E i, j \in 1..Len(issues) :
         /\ issues[i].fund_id = standardized_funds[1].fund_id
         /\ issues[i].field_name = "fund_size_usd_millions"
         /\ issues[i].severity = "Critical"
         /\ issues[j].fund_id = standardized_funds[2].fund_id
         /\ issues[j].field_name = "vintage_year"
         /\ issues[j].severity = "High"

-----------------------------------------------------------------------------
(* Claims about validate_consistency *)

-----------------------------------------------------------------------------
(* Claims about validate_duplicates *)

\* The funds that share manager_name and fund_name with the k-th fund, the
\* k-th fund included; a missing name is shared with no fund
SameManagerAndName(k) ==
    { j \in 1..Len(standardized_funds) :
        /\ notna(standardized_funds[k].manager_name)
        /\ notna(standardized_funds[k].fund_name)
        /\ standardized_funds[j].manager_name = standardized_funds[k].manager_name
        /\ standardized_funds[j].fund_name = standardized_funds[k].fund_name }

\* C16: once validate_duplicates has run, every fund that shares its
\* (manager_name, fund_name) with at least one other fund has exactly one
\* Duplicates issue, of severity High, which names the size of its group, and
\* a fund whose (manager, name) pair is unique has none; three funds sharing
\* one name under one manager therefore give exactly three issues.
C16_OneDuplicatesIssuePerMember ==
    pc \in { "v_referential", "v_cross_source", "v_save" } =>
        /\ \A k \in 1..Len(standardized_funds) :
              LET group == SameManagerAndName(k)
                  logged == IssuesOn(standardized_funds[k].fund_id,
                                     "Duplicates", "fund_name")
              IN  IF Cardinality(group) > 1
                  THEN /\ Len(logged) = 1
                       /\ logged[1].severity = "High"
                       /\ logged[1].issue_description[2]
                            = ToString(Cardinality(group))
                  ELSE logged = << >>
        /\ \A i \in 1..Len(issues) :
              issues[i].issue_type = "Duplicates" =>
                  /\ issues[i].field_name = "fund_name"
                  /\ \E k \in 1..Len(standardized_funds) :
                        standardized_funds[k].fund_id = issues[i].fund_id

\* C16 witness: validate_duplicates has run on three funds of one manager
\* sharing one name, and exactly three Duplicates issues are logged.
C16_Witness ==
    /\ pc = "v_referential"
    /\ Len(standardized_funds) = 3
    /\ \A k \in 1..3 :
          /\ standardized_funds[k].manager_name = Some("Apex Capital")
          /\ standardized_funds[k].fund_name = Some("Fund I")
    /\ Len(SelectSeq(issues, LAMBDA i : i.issue_type = "Duplicates")) = 3

-----------------------------------------------------------------------------
(* Claims about validate_referential_integrity *)

\* The observations of standardized_performance that carry fund_id `id`
ObservationsOf(id) ==
    { k \in 1..Len(standardized_performance) :
        standardized_performance[k].fund_id = id }

\* The issues of type Referential Integrity logged on fund_id `id`
ReferentialIssuesOn(id) ==
    SelectSeq(issues, LAMBDA i :
        i.fund_id = id /\ i.issue_type = "Referential Integrity")

\* C17: once validate_referential_integrity has run, every fund_id carried
\* by some observation and by no fund has exactly one Referential Integrity
\* issue, of severity High, however many observations carry it, and a
\* fund_id that is in the fund master has none.
C17_OneIssuePerOrphanFundId ==
    pc \in { "v_cross_source", "v_save" } =>
        \A id \in FundIdsOf(standardized_performance) \cup FundIdsOf(standardized_funds) :
            IF id \in FundIdsOf(standardized_funds)
            THEN ReferentialIssuesOn(id) = << >>
            ELSE /\ Len(ReferentialIssuesOn(id)) = 1
                 /\ ReferentialIssuesOn(id)[1].severity = "High"
                 /\ ReferentialIssuesOn(id)[1].field_name = "fund_id"

\* C17 witness: validate_referential_integrity has run on a table in which
\* two observations carry the same fund_id unknown to the fund master and
\* another carries a known one; the unknown fund_id has its single issue.
C17_Witness ==
    /\ pc = "v_cross_source"
    /\ \E id \in FundIdsOf(standardized_performance) :
          /\ id \notin FundIdsOf(standardized_funds)
          /\ Cardinality(ObservationsOf(id)) >= 2
          /\ Len(ReferentialIssuesOn(id)) = 1
    /\ \E id \in FundIdsOf(standardized_performance) :
          id \in FundIdsOf(standardized_funds)

-----------------------------------------------------------------------------
(* Claims about validate_cross_source *)

\* The reported AUMs of the filings of fund_id `id`, in table order
FiledAums(id) ==
    MapSeq(SelectSeq(raw_regulatory, LAMBDA g : g.fund_id = id),
           LAMBDA g : g.reported_aum_millions)

\* The issues of type Cross-Source Variance logged on fund_id `id`
VarianceIssuesOn(id) ==
    SelectSeq(issues, LAMBDA i :
        i.fund_id = id /\ i.issue_type = "Cross-Source Variance")

\* The severity the thresholds give a variance of num / den per cent, den > 0
SeverityOfVariance(num, den) ==
    IF num > 30 * den THEN "Critical"
    ELSE IF num > 15 * den THEN "High" ELSE "Medium"

RECURSIVE FirstFilings(_)
FirstFilings(reg) ==
    IF reg = << >> THEN << >>
    ELSE LET front == FirstFilings(SubSeq(reg, 1, Len(reg) - 1))
             last == reg[Len(reg)]
         IN  IF last.fund_id \in FundIdsOf(front) THEN front
             ELSE Append(front, last)

\* C19: once validate_cross_source has run, the Cross-Source Variance issues
\* are those the comparison with the first filing of each fund_id gives: for
\* every fund, whether an issue is logged and its severity are the same as
\* with every later filing of its fund_id taken away.
C19_OnlyFirstFilingCompared ==
    pc \in { "v_save", "v_summary" } =>
        LET first_only ==
                validate_cross_source_calls(standardized_funds,
                                            FirstFilings(raw_regulatory))
        IN  \A k \in 1..Len(standardized_funds) :
                LET id == standardized_funds[k].fund_id
                IN  MapSeq(VarianceIssuesOn(id), LAMBDA i : i.severity)
                      = MapSeq(SelectSeq(first_only, LAMBDA c : c.fund_id = id),
                               LAMBDA c : c.severity)

-----------------------------------------------------------------------------
(* Claims about validate_timeliness *)

\* now - last_updated exceeds n days: last_updated is the midnight that
\* opens its day and now lies inside day `today`, after its midnight
AgeBeyond(last_updated, n) == today - Val(last_updated) >= n

\* C20: once validate_timeliness has run, every fund whose last_updated lies
\* more than 90 days before now has exactly one Timeliness issue, Critical
\* when now - last_updated is beyond 365 days, High when it is beyond 180
\* days, Medium otherwise, and every other fund has none.
C20_TimelinessIssueByAge ==
    pc \in { "v_duplicates", "v_referential", "v_cross_source", "v_save" } =>
        \A k \in 1..Len(standardized_funds) :
            LET lu == standardized_funds[k].last_updated
                logged == IssuesOn(standardized_funds[k].fund_id,
                                   "Timeliness", "last_updated")
            IN  IF notna(lu) /\ AgeBeyond(lu, TimelinessDays)
                THEN /\ Len(logged) = 1
                     /\ logged[1].severity
                          = IF AgeBeyond(lu, 365) THEN "Critical"
                            ELSE IF AgeBeyond(lu, 180) THEN "High"
                            ELSE "Medium"
                ELSE logged = << >>

-----------------------------------------------------------------------------
(* Claims about the scores *)

\* The metrics of self.metrics with name `name` and entity type System
SystemScores(name) ==
    SelectSeq(metrics, LAMBDA m :
        m.metric_name = name /\ m.entity_type = "System")

\* C21: once calculate_overall_dq_score has run, self.metrics holds one
\* Overall Data Quality Score and one System-level Completeness, Accuracy and
\* Timeliness Score, and the Overall score is
\* 0.30 * Completeness + 0.50 * Accuracy + 0.20 * Timeliness of these System
\* scores, to the two decimals metrics are logged with; when the three are
\* 100 it is 100.00.
C21_OverallIsWeightedSystemScores ==
    pc \in { "m_issues", "m_save", "m_report" } =>
        /\ Len(SystemScores("Overall Data Quality Score")) = 1
        /\ Len(SystemScores("Completeness Score")) = 1
        /\ Len(SystemScores("Accuracy Score")) = 1
        /\ Len(SystemScores("Timeliness Score")) = 1
        /\ LET overall == SystemScores("Overall Data Quality Score")[1].metric_value
               completeness == SystemScores("Completeness Score")[1].metric_value
               accuracy == SystemScores("Accuracy Score")[1].metric_value
               timeliness == SystemScores("Timeliness Score")[1].metric_value
               weighted == 30 * completeness + 50 * accuracy + 20 * timeliness
           IN  /\ Abs(100 * overall - weighted) <= 50
               /\ (completeness = 10000 /\ accuracy = 10000 /\ timeliness = 10000)
                    => overall = 10000

\* C21 witness: the Overall score has been logged in a run whose System
\* Accuracy Score is below 100 while some Fund Type Accuracy Score is 100.
C21_Witness ==
    /\ pc = "m_issues"
    /\ Len(SystemScores("Overall Data Quality Score")) = 1
    /\ SystemScores("Accuracy Score")[1].metric_value < 10000
    /\ \E i \in 1..Len(metrics) :
         /\ metrics[i].metric_name = "Accuracy Score"
         /\ metrics[i].entity_type = "Fund Type"
         /\ metrics[i].metric_value = 10000

-----------------------------------------------------------------------------
(* Order specification: the seven rules of 02 main called in any order on   *)
(* one validator; pc is the set of rules that have been called              *)

\* The rule evaluators of DataQualityValidator, in the order of 02 main
RuleNames ==
    << "validate_completeness", "validate_accuracy", "validate_consistency",
       "validate_timeliness", "validate_duplicates",
       "validate_referential_integrity", "validate_cross_source" >>

\* The log_issue calls of a rule on the tables; `order` is the iteration
\* order of orphaned_records
RuleCalls(rule, order) ==
    CASE rule = "validate_completeness" ->
           validate_completeness_calls(standardized_funds)
      [] rule = "validate_accuracy" ->
           validate_accuracy_calls(standardized_funds, standardized_performance, today)
      [] rule = "validate_consistency" ->
           validate_consistency_calls(standardized_funds, standardized_performance)
      [] rule = "validate_timeliness" ->
           validate_timeliness_calls(standardized_funds, today)
      [] rule = "validate_duplicates" ->
           validate_duplicates_calls(standardized_funds)
      [] rule = "validate_referential_integrity" ->
           validate_referential_integrity_calls(order)
      [] rule = "validate_cross_source" ->
           validate_cross_source_calls(standardized_funds, raw_regulatory)

\* One rule that has not been called yet is called
CallRule(rule) ==
    /\ rule \notin pc
    /\ \E order \in Perms(OrphanedRecords(standardized_funds, standardized_performance)) :
         SetValidator(LogAll(Validator, RuleCalls(rule, order)))
    /\ pc' = pc \cup { rule }
    /\ UNCHANGED << storevars, sinkvars, generatorvars, runs, today >>

\* A fund with a missing administrator, a negative size, a last update 200
\* days old and the name of fund F1
FlawedFund(i) ==
    [ StdFund(i) EXCEPT !.administrator = Null,
                        !.fund_size_usd_millions = Some(-500),
                        !.last_updated = Some(-200),
                        !.fund_name = Some(FundNames[1]) ]

OrderFundRows(i) == { StdFund(i), FlawedFund(i) }

\* Databases on which several rules log issues
OrderDatabases ==
    [ funds : TablesUpTo(MaxFunds, OrderFundRows),
      perf  : { << StdPerf(FundId(1)) >>,
                << Observation(1, Some(80), Some(100), Some(190)), StdPerf("FX") >> },
      reg   : { << >>, << Filing(Some(FundId(1)), Some(9000)) >> } ]

\* A new validator on one of the databases, no rule called yet
OrderInit ==
    /\ \E db \in OrderDatabases :
         /\ standardized_funds = db.funds
         /\ standardized_performance = db.perf
         /\ raw_regulatory = db.reg
    /\ load_failed = {}
    /\ EmptySink
    /\ issues = NewValidator(0).issues
    /\ alerts = NewValidator(0).alerts
    /\ stats = NewValidator(0).stats
    /\ validation_timestamp = NewValidator(0).validation_timestamp
    /\ metrics = << >>
    /\ metric_date = 0
    /\ pc = {}
    /\ runs = 1
    /\ today = 0

OrderNext == \E k \in 1..Len(RuleNames) : CallRule(RuleNames[k])

SpecOrder == OrderInit /\ [][OrderNext]_vars

\* The validator after the rules have run in the order of 02 main
RECURSIVE MainOrderValidator(_)
MainOrderValidator(n) ==
    IF n = 0 THEN NewValidator(validation_timestamp)
    ELSE LogAll(MainOrderValidator(n - 1),
                RuleCalls(RuleNames[n],
                          CHOOSE order \in Perms(OrphanedRecords(standardized_funds,
                                                                 standardized_performance)) : TRUE))

\* Sequences a and b hold the same elements the same number of times
SameMultiset(a, b) ==
    /\ Len(a) = Len(b)
    /\ \A x \in Range(a) :
         Len(SelectSeq(a, LAMBDA y : y = x)) = Len(SelectSeq(b, LAMBDA y : y = x))

\* An alert without its identifier
AlertContent(a) ==
    [ fund_id |-> a.fund_id, rule_violated |-> a.rule_violated,
      severity |-> a.severity, description |-> a.description ]

\* C22: when the seven rules have been called, in whatever order, the
\* validator holds the same multiset of issues (fund_id, type, severity,
\* field, expected and actual value, description) and the same severity
\* tallies as after the order of 02 main, and the same alerts up to their
\* order and numbering; and no call of a rule changes standardized_funds,
\* standardized_performance or raw_regulatory.
C22_RuleOrderIrrelevant ==
    /\ [](pc = Range(RuleNames) =>
            LET main == MainOrderValidator(Len(RuleNames))
            IN  /\ SameMultiset(issues, main.issues)
                /\ stats = main.stats
                /\ SameMultiset(MapSeq(alerts, AlertContent),
                                MapSeq(main.alerts, AlertContent)))
    /\ [][UNCHANGED << standardized_funds, standardized_performance,
                       raw_regulatory >>]_vars

\* C22 witness: the seven rules have been called in an order that leaves the
\* issues, and the alert numbering, in another order than 02 main does.
C22_Witness ==
    /\ pc = Range(RuleNames)
    /\ Len(issues) >= 4
    /\ issues # MainOrderValidator(Len(RuleNames)).issues
    /\ Len(alerts) >= 2
    /\ alerts[1].rule_violated
         # MainOrderValidator(Len(RuleNames)).alerts[1].rule_violated

-----------------------------------------------------------------------------
(* Claims about the order of validation and metrics *)

\* The positions of 03 main from StartMetrics to the end of the script
MetricsPositions ==
    { "m_completeness", "m_accuracy", "m_timeliness", "m_manager", "m_overall",
      "m_issues", "m_save", "m_report" }

\* C23: in every execution of the pipeline runner, while the metrics script
\* runs (so whenever an Accuracy or Manager Quality metric is computed) the
\* issue table holds the complete issue set of this execution: the issues
\* the seven rules log on the tables this execution has loaded, with this
\* execution's validation timestamp, never a part of them and never the
\* issues an earlier execution left.
C23_MetricsReadThisRunsCompleteIssues ==
    pc \in MetricsPositions =>
        /\ SameMultiset(quality_issues,
                        MainOrderValidator(Len(RuleNames)).issues)
        /\ quality_issues = issues

\* C23 witness: an Accuracy metric is about to be computed in an execution
\* whose validation logged issues, none of them Critical, after an earlier
\* execution that raised Critical alerts (its extract is still on disk).
C23_Witness ==
    /\ pc = "m_accuracy"
    /\ quality_issues # << >>
    /\ quality_alerts = << >>
    /\ critical_alerts_csv # << >>

-----------------------------------------------------------------------------
(* Rerun specification: validation and metrics run again and again on one   *)
(* database, on one day                                                     *)

\* Databases with fund_ids outside the master, databases on which several
\* rules log issues, and databases with last updates around the thresholds
RerunDatabases ==
    ReferentialDatabases \cup OrderDatabases \cup TimelinessDatabases

\* 02 main has been started on one of the databases
RerunInit ==
    /\ \E db \in RerunDatabases :
         /\ standardized_funds = db.funds
         /\ standardized_performance = db.perf
         /\ raw_regulatory = db.reg
    /\ load_failed = {}
    /\ EmptySink
    /\ issues = NewValidator(0).issues
    /\ alerts = NewValidator(0).alerts
    /\ stats = NewValidator(0).stats
    /\ validation_timestamp = NewValidator(0).validation_timestamp
    /\ metrics = << >>
    /\ metric_date = 0
    /\ pc = "v_completeness"
    /\ runs = 1
    /\ today = 0

\* 03 is started after 02 has run
MetricsAfterValidation ==
    /\ runs % 2 = 1
    /\ StartMetrics

\* 02 is started again after 03 has run
ValidationAgain ==
    /\ runs % 2 = 0
    /\ StartValidation

RerunNext ==
    \/ ValidationNext
    \/ MetricsAfterValidation
    \/ MetricsNext
    \/ ValidationAgain

SpecRerun == RerunInit /\ [][RerunNext]_vars

\* The last n rows of a table
LastRows(table, n) == SubSeq(table, Len(table) - n + 1, Len(table))

\* C24: when validation and metrics are run a second time on the same
\* tables at the same time, the second run's issues are the first run's
\* (which the issue table holds), with the same content in the same order,
\* its alerts are the first run's alerts with the same identifiers, and its
\* metrics are the first run's metrics (the rows the metric table holds).
C24_RerunProducesIdenticalOutput ==
    /\ (pc = "v_save" /\ runs > 2) =>
          /\ issues = quality_issues
          /\ quality_alerts # << >> => alerts = quality_alerts
    /\ (pc = "m_save" /\ runs > 2) =>
          metrics = LastRows(quality_metrics, Len(metrics))

-----------------------------------------------------------------------------
(* Claims about missing values *)

\* The rows of `table` with fund_id `id` that satisfy Present
\* (rows of one table may share a fund_id)
RowsOf(table, id, Present(_)) ==
    SelectSeq(table, LAMBDA r : r.fund_id = id /\ Present(r))

\* The fields of standardized_funds that validate_accuracy checks
CheckedFundFields ==
    { FundNumericRanges(today)[k].field : k \in 1..Len(FundNumericRanges(today)) }
      \cup { FundCategoricalValues[k].field : k \in 1..Len(FundCategoricalValues) }

\* The fields of standardized_performance that validate_accuracy checks
CheckedPerfFields ==
    { PerfNumericRanges[k].field : k \in 1..Len(PerfNumericRanges) }

\* C25: once the rules have run, null values have produced no Accuracy,
\* Consistency or Cross-Source Variance issue: a fund_id has at most as many
\* issues of a range or categorical check on a field as it has records with
\* that field present, at most as many TVPI issues as observations with TVPI,
\* DPI and RVPI present, at most as many size-versus-target issues as
\* records with size and target present, and at most as many variance issues
\* as records with a size, and none unless a filing of the fund reports an
\* AUM.
C25_NullsTriggerNoCheck ==
    pc \in { "v_save", "v_summary" } =>
        \A id \in FundIdsOf(standardized_funds) \cup FundIdsOf(standardized_performance) :
            /\ \A f \in (CheckedFundFields \cap FundColumns) \ CheckedPerfFields :
                 Len(IssuesOn(id, "Accuracy", f))
                   <= Len(RowsOf(standardized_funds, id, LAMBDA r : notna(r[f])))
            /\ \A f \in (CheckedPerfFields \cap PerfColumns) \ CheckedFundFields :
                 Len(IssuesOn(id, "Accuracy", f))
                   <= Len(RowsOf(standardized_performance, id, LAMBDA r : notna(r[f])))
            /\ Len(IssuesOn(id, "Consistency", "tvpi"))
                 <= Len(RowsOf(standardized_performance, id, LAMBDA r :
                          notna(r.tvpi) /\ notna(r.dpi) /\ notna(r.rvpi)))
            /\ Len(IssuesOn(id, "Consistency", "fund_size_usd_millions"))
                 <= Len(RowsOf(standardized_funds, id, LAMBDA r :
                          /\ notna(r.fund_size_usd_millions)
                          /\ notna(r.target_size_usd_millions)))
            /\ Len(VarianceIssuesOn(id))
                 <= Len(RowsOf(standardized_funds, id, LAMBDA r :
                          notna(r.fund_size_usd_millions)))
            /\ VarianceIssuesOn(id) # << >> =>
                 \E k \in 1..Len(FiledAums(id)) : notna(FiledAums(id)[k])

\* C25 witness: the rules have run on a fund whose size is missing and whose
\* filing reports an AUM: the fund has its Completeness issue and no other
\* issue.
C25_Witness ==
    /\ pc = "v_save"
    /\ isna(standardized_funds[1].fund_size_usd_millions)
    /\ \E k \in 1..Len(FiledAums(standardized_funds[1].fund_id)) :
         notna(FiledAums(standardized_funds[1].fund_id)[k])
    /\ \A i \in 1..Len(issues) :
         (issues[i].fund_id = standardized_funds[1].fund_id)
           => issues[i].issue_type = "Completeness"
    /\ \E i \in 1..Len(issues) : issues[i].fund_id = standardized_funds[1].fund_id

-----------------------------------------------------------------------------
(* Claims about the accumulator *)

\* C26: a validator starts with no issue and no alert, and every log_issue
\* call appends exactly one issue, with status Open, and for a Critical issue
\* exactly one alert, active and not acknowledged; the issues and alerts
\* logged before keep their content and their place.
C26_AccumulatorAppendOnly ==
    /\ issues = << >>
    /\ alerts = << >>
    /\ [][ /\ issues' # << >>
           /\ SubSeq(issues', 1, Len(issues') - 1) = issues
           /\ issues'[Len(issues')].status = "Open"
           /\ IF issues'[Len(issues')].severity = "Critical"
              THEN /\ alerts' # << >>
                   /\ SubSeq(alerts', 1, Len(alerts') - 1) = alerts
                   /\ alerts'[Len(alerts')].status = "ACTIVE"
                   /\ alerts'[Len(alerts')].acknowledged_by = Null
                   /\ alerts'[Len(alerts')].acknowledged_timestamp = Null
              ELSE alerts' = alerts ]_vars

\* C26 witness: a Critical issue has been logged after two others, one of
\* them Critical, all Open, with two alerts not acknowledged.
C26_Witness ==
    /\ Len(issues) = 3
    /\ issues[1].severity = "Critical"
    /\ issues[3].severity = "Critical"
    /\ \A k \in 1..3 : issues[k].status = "Open"
    /\ Len(alerts) = 2
    /\ \A k \in 1..2 : alerts[k].acknowledged_by = Null

\* The issues logged with one of the severities of S
IssuesOfSeverity(S) == SelectSeq(issues, LAMBDA i : i.severity \in S)

\* C27: after any sequence of log_issue calls, total_issues is the length of
\* the issue list and the sum of the four tallies, critical_issues is the
\* number of alerts, each of the Critical, High and Medium tallies counts the
\* issues of its severity, and low_issues counts every other issue.
C27_TalliesMatchIssues ==
    /\ stats.total_issues = Len(issues)
    /\ stats.total_issues = stats.critical_issues + stats.high_issues
                              + stats.medium_issues + stats.low_issues
    /\ stats.critical_issues = Len(alerts)
    /\ stats.critical_issues = Len(IssuesOfSeverity({ "Critical" }))
    /\ stats.high_issues = Len(IssuesOfSeverity({ "High" }))
    /\ stats.medium_issues = Len(IssuesOfSeverity({ "Medium" }))
    /\ stats.low_issues
         = Len(issues) - Len(IssuesOfSeverity({ "Critical", "High", "Medium" }))

\* C27 witness: three issues, one Critical, one Low and one of a severity
\* that is none of the four, tallied as one critical and two low.
C27_Witness ==
    /\ Len(issues) = 3
    /\ Len(IssuesOfSeverity({ "Critical" })) = 1
    /\ Len(IssuesOfSeverity({ "Low" })) = 1
    /\ Len(IssuesOfSeverity({ "Critical", "High", "Medium", "Low" })) = 2
    /\ stats.low_issues = 2
    /\ stats.critical_issues = 1

-----------------------------------------------------------------------------
(* Tier specification: get_manager_tier applied to quality scores           *)

\* Evaluations of get_manager_tier kept side by side
MaxTierCalls == 2

\* Quality scores, in hundredths of a percent: the whole percentages from 0
\* to 100 and the last hundredth below each tier boundary
TierScores ==
    { 100 * k : k \in 0..100 } \cup { 6999, 8499, 9499, 9999 }

\* No manager has been graded yet
TierInit ==
    /\ standardized_funds = << >>
    /\ standardized_performance = << >>
    /\ raw_regulatory = << >>
    /\ load_failed = {}
    /\ EmptySink
    /\ issues = << >>
    /\ alerts = << >>
    /\ stats = InitStats
    /\ validation_timestamp = 0
    /\ metrics = << >>
    /\ metric_date = 0
    /\ pc = "m_manager"
    /\ runs = 0
    /\ today = 0

\* calculate_manager_quality_scores grades one manager:
\* tier = get_manager_tier(quality_score)
GradeManager(quality_score) ==
    /\ pc = "m_manager"
    /\ Len(metrics) < MaxTierCalls
    /\ metrics' = Append(metrics, [ quality_score |-> quality_score,
                                    tier |-> get_manager_tier(quality_score) ])
    /\ UNCHANGED << storevars, sinkvars, validatorvars, metric_date, pc, runs, today >>

TierNext == \E quality_score \in TierScores : GradeManager(quality_score)

SpecTier == TierInit /\ [][TierNext]_vars

\* The tiers of MANAGER_TIERS from best to worst
TierOrder ==
    << "Tier 1 (Excellent)", "Tier 2 (Good)", "Tier 3 (Needs Improvement)",
       "Tier 4 (Critical)" >>

TierRank(tier) == CHOOSE k \in 1..Len(TierOrder) : TierOrder[k] = tier

\* C28: of two managers graded by get_manager_tier, the one with the higher
\* quality score in [0, 100] never has the worse tier, and a score of
\* exactly 100 has the best tier.
C28_TierMonotone ==
    /\ \A i, j \in 1..Len(metrics) :
         metrics[i].quality_score <= metrics[j].quality_score
           => TierRank(metrics[j].tier) <= TierRank(metrics[i].tier)
    /\ \A i \in 1..Len(metrics) :
         metrics[i].quality_score = 10000 => metrics[i].tier = TierOrder[1]

-----------------------------------------------------------------------------
(* Claims about the timeliness rule and the Timeliness Score *)

\* The funds validate_timeliness has logged no issue for (the issue table
\* holds the issues of the validation run)
FundsWithoutTimelinessIssue ==
    SelectSeq(standardized_funds, LAMBDA r :
        \A i \in 1..Len(quality_issues) :
            ~(quality_issues[i].fund_id = r.fund_id
                /\ quality_issues[i].issue_type = "Timeliness"))

\* C29: when the Timeliness Score is computed at the instant of the
\* validation run, a fund counts as timely if and only if the run logged no
\* Timeliness issue for it, so the System score is the percentage of funds
\* without a Timeliness issue (funds last updated 90 days ago and funds with
\* no last_updated included).
C29_ScoreAgreesWithRule ==
    (pc \in { "m_manager", "m_overall", "m_issues", "m_save", "m_report" }
       /\ standardized_funds # << >>) =>
        /\ \A k \in 1..Len(standardized_funds) :
             Timely(standardized_funds[k], today)
               <=> \E j \in 1..Len(FundsWithoutTimelinessIssue) :
                     FundsWithoutTimelinessIssue[j] = standardized_funds[k]
        /\ SystemScores("Timeliness Score")[1].metric_value
             = Pct(Len(FundsWithoutTimelinessIssue), Len(standardized_funds))

-----------------------------------------------------------------------------
(* Claims about the runner *)

\* The positions inside 02 main
ValidationPositions == ScriptPositions \ MetricsPositions

\* C30: the runner launches its scripts in the order ingest, validation,
\* metrics, export, each one when no script is running and every earlier
\* one of this execution has ended with exit status 0; a script that is
\* left before its end has failed, after a failure the runner exits with
\* status 1, and after that exit no step follows but the first step of a
\* new execution.
C30_StepsInOrderAbortOnFailure ==
    /\ [](/\ pc \in ValidationPositions => runs = 2
          /\ pc \in MetricsPositions => runs = 3)
    /\ [][ /\ runs' = runs + 1 =>
                /\ pc \in { "nodb", "idle" }
                /\ runs = 0 => (pc' = "idle" /\ quality_issues' = << >>)
                /\ runs = 1 => pc' = "v_completeness"
                /\ runs = 2 => pc' = "m_completeness"
                /\ runs = 3 => (pc' = "idle" /\ exported' # NothingExported)
           /\ (pc \in ScriptPositions /\ pc' \notin ScriptPositions) =>
                \/ pc' = "idle" /\ pc \in { "v_summary", "m_report" }
                \/ pc' = "failed"
           /\ pc = "failed" => (pc' = "exit_1" /\ runs' = runs)
           /\ pc = "exit_1" => runs' = 0
           /\ runs' # runs => (runs' = runs + 1 \/ runs' = 0) ]_vars

\* C30 witness: the validation script of an execution has failed and the
\* runner has exited with status 1 without launching metrics or export,
\* after an earlier execution that went through its four steps.
C30_Witness ==
    /\ pc = "exit_1"
    /\ runs = 2
    /\ exported # NothingExported

====
